---- MODULE Spec2Model ----
(***************************************************************************)
(* clauderock: the launch/validate protocol of internal/launcher and the   *)
(* profile migration engine of internal/migrations + internal/profiles.    *)
(*                                                                         *)
(* Strings of the program are TLA+ strings; the string functions of the    *)
(* program (strings.SplitN, strings.Split, strconv.Atoi, ...) are          *)
(* operators over Len/SubSeq.                                              *)
(***************************************************************************)
EXTENDS Integers, Sequences, FiniteSets, TLC

VARIABLES
    \* ---- internal/launcher: one call of Launch ----
    cfgProfileType,   \* cfg.ProfileType, argument of Launch
    modelIDs,         \* mainModelID, fastModelID, heavyModelID, arguments of Launch
    osEnv,            \* what the operating system answers: LookPath, keyring.Get, cmd.Start
    pc,               \* position of the coordinator (the goroutine running Launch)
    vpc,              \* the validation goroutine: "idle", "running", "done"
    wpc,              \* the goroutine around cmd.Wait(): "idle", "waiting", "done"
    validationDone,   \* chan error, capacity 1
    cmdDone,          \* chan error, capacity 1
    child,            \* the claude process: "notStarted", "running", "exited"
    childStatus,      \* how the process ended (meaningful once child = "exited")
    killPending,      \* a SIGKILL has been sent to the running process
    killCalls,        \* history: at every cmd.Process.Kill(), the state of the child
                      \* and whether cmd.Wait()'s result had been sent
    exitedFirst,      \* history: the child exited while validation had not completed
    validationErr,    \* local validationErr of the select's first case
    cmdErr,           \* local cmdErr: what was received from cmdDone
    exitCode,         \* local exitCode
    tracked,          \* history: the calls of trackSession, in order
    result,           \* what Launch returned (NotReturned while it has not)
    hostExit,         \* <<code>> once os.Exit(code) was called, <<>> before
    \* ---- internal/profiles + internal/migrations: the profile store ----
    profiles,         \* ~/.clauderock/profiles/<name>.json: name -> record or Absent
    current,          \* content of ~/.clauderock/current ("" when the file is absent)
    legacy,           \* ~/.clauderock/config.json: a record or Absent
    lastLoad,         \* history: the latest GetCurrentConfig call and what it did
    prevLoad,         \* history: the GetCurrentConfig call right before it, or NoLoad
    \* ---- functions called on their own ----
    call              \* the latest call of a function: its name, arguments and results

launchVars == <<cfgProfileType, modelIDs, osEnv, pc, vpc, wpc, validationDone, cmdDone,
                child, childStatus, killPending, killCalls, exitedFirst, validationErr,
                cmdErr, exitCode, tracked, result, hostExit>>
storeVars == <<profiles, current, legacy, lastLoad, prevLoad>>
funcVars == <<call>>
vars == <<launchVars, storeVars, funcVars>>

(***************************************************************************)
(* Bounds                                                                  *)
(***************************************************************************)
\* child exit codes are 0..MaxExitCode
MaxExitCode == 2

(***************************************************************************)
(* internal/launcher/launcher.go                                           *)
(***************************************************************************)
NoErr == [kind |-> "nil"]

\* the result of Launch: not yet returned, nil, or an error (with its cause)
NotReturned == [status |-> "none"]
Nil == [status |-> "nil"]
Err(msg) == [status |-> "error", msg |-> msg]
ErrWrap(msg, cause) == [status |-> "error", msg |-> msg, cause |-> cause]

ProfileTypes == {"bedrock", "api", ""}

\* the identifiers Launch may be called with, and the ones a catalog may hold
LaunchIDs == {"global.anthropic.claude-sonnet-4-5-20250929-v1:0",
              "us.anthropic.claude-haiku-4-5-20251001-v1:0"}

\* the three identifiers in the order Launch passes them to the validator
IDList == <<modelIDs.main, modelIDs.fast, modelIDs.heavy>>

\* ValidateProfileIDs: the catalog fetch fails, or the first identifier that is
\* not in the catalog is reported, or nil.
ValidateProfileIDs(fetch, catalog, ids) ==
    IF fetch = "configError" THEN [kind |-> "fetch", msg |-> "failed to load AWS config"]
    ELSE IF fetch = "listError"
         THEN [kind |-> "fetch", msg |-> "failed to list inference profiles"]
    ELSE IF \E i \in 1..Len(ids) : ids[i] \notin catalog
         THEN LET i == CHOOSE j \in 1..Len(ids) :
                          /\ ids[j] \notin catalog
                          /\ \A k \in 1..(j - 1) : ids[k] \in catalog
              IN [kind |-> "invalid", ids |-> <<ids[i]>>]
    ELSE NoErr

\* api.ValidateModels: the fetch fails, or all missing identifiers are reported.
RECURSIVE Missing(_, _)
Missing(ids, catalog) ==
    IF ids = <<>> THEN <<>>
    ELSE IF Head(ids) \notin catalog
         THEN <<Head(ids)>> \o Missing(Tail(ids), catalog)
         ELSE Missing(Tail(ids), catalog)

ValidateModels(fetch, catalog, ids) ==
    IF fetch # "ok" THEN [kind |-> "fetch", msg |-> "failed to fetch models for validation"]
    ELSE IF Len(Missing(ids, catalog)) > 0
         THEN [kind |-> "invalid", ids |-> Missing(ids, catalog)]
    ELSE NoErr

FetchOutcomes == {"ok", "configError", "listError"}

\* what cmd.Wait() returns for an exited process: nil for exit code 0, an
\* *exec.ExitError otherwise (ExitCode() is -1 for a process ended by a signal)
WaitResult(status) ==
    IF status.kind = "exit" /\ status.code = 0 THEN NoErr
    ELSE IF status.kind = "exit" THEN [kind |-> "ExitError", code |-> status.code]
    ELSE [kind |-> "ExitError", code |-> -1]

\* an error of cmd.Wait() that is no *exec.ExitError
WaitFailure == [kind |-> "error"]

\* nothing received from cmdDone yet
NotReceived == [kind |-> "none"]

LaunchInit ==
    /\ cfgProfileType \in ProfileTypes
    /\ modelIDs \in [main : LaunchIDs, fast : LaunchIDs, heavy : LaunchIDs]
    /\ osEnv \in [lookPath : BOOLEAN, keyring : BOOLEAN, start : BOOLEAN]
    /\ pc = "lookPath"
    /\ vpc = "idle"
    /\ wpc = "idle"
    /\ validationDone = <<>>
    /\ cmdDone = <<>>
    /\ child = "notStarted"
    /\ childStatus = [kind |-> "none"]
    /\ killPending = FALSE
    /\ killCalls = <<>>
    /\ exitedFirst = FALSE
    /\ validationErr = NoErr
    /\ cmdErr = NotReceived
    /\ exitCode = 0
    /\ tracked = <<>>
    /\ result = NotReturned
    /\ hostExit = <<>>

\* Launch returns: the error (or nil) becomes the result of the call
Return(err) ==
    /\ result' = err
    /\ pc' = "returned"

\* lines 27-31: exec.LookPath("claude")
LookPath ==
    /\ pc = "lookPath"
    /\ IF osEnv.lookPath
       THEN pc' = "prepareEnv" /\ result' = result
       ELSE Return(Err("claude binary not found in PATH"))
    /\ UNCHANGED <<storeVars, funcVars>>
    /\ UNCHANGED <<cfgProfileType, modelIDs, osEnv, vpc, wpc, validationDone, cmdDone,
                   child, childStatus, killPending, killCalls, exitedFirst,
                   validationErr, cmdErr, exitCode, tracked, hostExit>>

\* lines 33-76: the environment by profile type, and the validation goroutine
PrepareEnv ==
    /\ pc = "prepareEnv"
    /\ IF cfgProfileType = "bedrock"
       THEN vpc' = "running" /\ pc' = "startCmd" /\ result' = result
       ELSE IF cfgProfileType = "api"
            THEN IF osEnv.keyring
                 THEN vpc' = "running" /\ pc' = "startCmd" /\ result' = result
                 ELSE Return(Err("failed to retrieve API key from keychain")) /\ vpc' = vpc
            ELSE Return(Err("unsupported profile type")) /\ vpc' = vpc
    /\ UNCHANGED <<storeVars, funcVars>>
    /\ UNCHANGED <<cfgProfileType, modelIDs, osEnv, wpc, validationDone, cmdDone,
                   child, childStatus, killPending, killCalls, exitedFirst,
                   validationErr, cmdErr, exitCode, tracked, hostExit>>

\* a start that would first wait for the validation result
CmdStartWaitsForValidation ==
    /\ pc = "startCmd"
    /\ validationDone # <<>>
    /\ IF osEnv.start
       THEN child' = "running" /\ pc' = "spawnWait" /\ result' = result
       ELSE Return(Err("failed to start claude")) /\ child' = child
    /\ UNCHANGED <<storeVars, funcVars>>
    /\ UNCHANGED <<cfgProfileType, modelIDs, osEnv, vpc, wpc, validationDone, cmdDone,
                   childStatus, killPending, killCalls, exitedFirst,
                   validationErr, cmdErr, exitCode, tracked, hostExit>>

\* lines 78-88: cmd.Start(); it reads nothing of the validation goroutine
CmdStart ==
    /\ pc = "startCmd"
    /\ IF osEnv.start
       THEN child' = "running" /\ pc' = "spawnWait" /\ result' = result
       ELSE Return(Err("failed to start claude")) /\ child' = child
    /\ UNCHANGED <<storeVars, funcVars>>
    /\ UNCHANGED <<cfgProfileType, modelIDs, osEnv, vpc, wpc, validationDone, cmdDone,
                   childStatus, killPending, killCalls, exitedFirst,
                   validationErr, cmdErr, exitCode, tracked, hostExit>>

\* lines 90-94: cmdDone and the goroutine that calls cmd.Wait()
SpawnWait ==
    /\ pc = "spawnWait"
    /\ wpc' = "waiting"
    /\ pc' = "select"
    /\ UNCHANGED <<storeVars, funcVars>>
    /\ UNCHANGED <<cfgProfileType, modelIDs, osEnv, vpc, validationDone, cmdDone,
                   child, childStatus, killPending, killCalls, exitedFirst,
                   validationErr, cmdErr, exitCode, tracked, result, hostExit>>

\* lines 51-53 and 71-73: the validation goroutine finishes its call and sends
\* the result; the channel has capacity 1, so the send never blocks
ValidationSend ==
    /\ vpc = "running"
    /\ Len(validationDone) < 1
    /\ \E fetch \in FetchOutcomes, catalog \in SUBSET LaunchIDs :
          validationDone' = Append(validationDone,
              IF cfgProfileType = "bedrock"
              THEN ValidateProfileIDs(fetch, catalog, IDList)
              ELSE ValidateModels(fetch, catalog, IDList))
    /\ vpc' = "done"
    /\ UNCHANGED <<storeVars, funcVars>>
    /\ UNCHANGED <<cfgProfileType, modelIDs, osEnv, pc, wpc, cmdDone,
                   child, childStatus, killPending, killCalls, exitedFirst,
                   validationErr, cmdErr, exitCode, tracked, result, hostExit>>

\* the claude process ends: by itself with an exit code, or by the SIGKILL
ChildExit ==
    /\ child = "running"
    /\ child' = "exited"
    /\ \/ \E c \in 0..MaxExitCode : childStatus' = [kind |-> "exit", code |-> c]
       \/ killPending /\ childStatus' = [kind |-> "signal"]
    /\ exitedFirst' = (vpc # "done")
    /\ UNCHANGED <<storeVars, funcVars>>
    /\ UNCHANGED <<cfgProfileType, modelIDs, osEnv, pc, vpc, wpc, validationDone,
                   cmdDone, killPending, killCalls, validationErr, cmdErr, exitCode,
                   tracked, result, hostExit>>

\* line 93: cmd.Wait() returns once the process has ended; its result is sent
WaitSend ==
    /\ wpc = "waiting"
    /\ child = "exited"
    /\ Len(cmdDone) < 1
    /\ \E r \in {WaitResult(childStatus), WaitFailure} : cmdDone' = Append(cmdDone, r)
    /\ wpc' = "done"
    /\ UNCHANGED <<storeVars, funcVars>>
    /\ UNCHANGED <<cfgProfileType, modelIDs, osEnv, pc, vpc, validationDone,
                   child, childStatus, killPending, killCalls, exitedFirst,
                   validationErr, cmdErr, exitCode, tracked, result, hostExit>>

\* a decoding that would drop the code of an *exec.ExitError
AfterWaitLosesCode(received) ==
    /\ cmdErr' = received
    /\ IF received.kind = "nil" \/ received.kind = "ExitError"
       THEN exitCode' = 0 /\ pc' = "track" /\ result' = result
       ELSE Return(Err("claude exited with error")) /\ exitCode' = exitCode

\* lines 108-115 and 128-135: the exit code out of cmd.Wait()'s error
AfterWait(received) ==
    /\ cmdErr' = received
    /\ IF received.kind = "nil" THEN exitCode' = 0 /\ pc' = "track" /\ result' = result
       ELSE IF received.kind = "ExitError"
            THEN exitCode' = received.code /\ pc' = "track" /\ result' = result
            ELSE Return(Err("claude exited with error")) /\ exitCode' = exitCode

\* line 97: select; among the cases that can proceed one is chosen at random
SelectValidation ==
    /\ pc = "select"
    /\ validationDone # <<>>
    /\ validationErr' = Head(validationDone)
    /\ validationDone' = Tail(validationDone)
    /\ pc' = IF Head(validationDone) # NoErr THEN "kill" ELSE "awaitExit"
    /\ UNCHANGED <<storeVars, funcVars>>
    /\ UNCHANGED <<cfgProfileType, modelIDs, osEnv, vpc, wpc, cmdDone,
                   child, childStatus, killPending, killCalls, exitedFirst,
                   cmdErr, exitCode, tracked, result, hostExit>>

\* a coordinator that would take the exit of the process only after the
\* validation goroutine has completed
SelectCmdAfterValidation ==
    /\ pc = "select"
    /\ vpc = "done"
    /\ cmdDone # <<>>
    /\ cmdDone' = Tail(cmdDone)
    /\ AfterWait(Head(cmdDone))
    /\ UNCHANGED <<storeVars, funcVars>>
    /\ UNCHANGED <<cfgProfileType, modelIDs, osEnv, vpc, wpc, validationDone,
                   child, childStatus, killPending, killCalls, exitedFirst,
                   validationErr, tracked, hostExit>>

SelectCmd ==
    /\ pc = "select"
    /\ cmdDone # <<>>
    /\ cmdDone' = Tail(cmdDone)
    /\ AfterWait(Head(cmdDone))
    /\ UNCHANGED <<storeVars, funcVars>>
    /\ UNCHANGED <<cfgProfileType, modelIDs, osEnv, vpc, wpc, validationDone,
                   child, childStatus, killPending, killCalls, exitedFirst,
                   validationErr, tracked, hostExit>>

\* line 101: cmd.Process.Kill(); on a process that has ended it does nothing
Kill ==
    /\ pc = "kill"
    /\ killCalls' = Append(killCalls, [child |-> child, exitSent |-> wpc = "done"])
    /\ killPending' = (child = "running")
    /\ pc' = "awaitKilled"
    /\ UNCHANGED <<storeVars, funcVars>>
    /\ UNCHANGED <<cfgProfileType, modelIDs, osEnv, vpc, wpc, validationDone, cmdDone,
                   child, childStatus, exitedFirst, validationErr, cmdErr, exitCode,
                   tracked, result, hostExit>>

\* a return that would not wait for cmd.Wait()'s result
AwaitKilledNoWait ==
    /\ pc = "awaitKilled"
    /\ cmdDone' = IF cmdDone # <<>> THEN Tail(cmdDone) ELSE cmdDone
    /\ Return(ErrWrap("invalid model configuration", validationErr))
    /\ UNCHANGED <<storeVars, funcVars>>
    /\ UNCHANGED <<cfgProfileType, modelIDs, osEnv, vpc, wpc, validationDone,
                   child, childStatus, killPending, killCalls, exitedFirst,
                   validationErr, cmdErr, exitCode, tracked, hostExit>>

\* lines 103-104: <-cmdDone, then the configuration error
AwaitKilled ==
    /\ pc = "awaitKilled"
    /\ cmdDone # <<>>
    /\ cmdDone' = Tail(cmdDone)
    /\ Return(ErrWrap("invalid model configuration", validationErr))
    /\ UNCHANGED <<storeVars, funcVars>>
    /\ UNCHANGED <<cfgProfileType, modelIDs, osEnv, vpc, wpc, validationDone,
                   child, childStatus, killPending, killCalls, exitedFirst,
                   validationErr, cmdErr, exitCode, tracked, hostExit>>

\* line 107: validation succeeded, cmdErr := <-cmdDone
AwaitExit ==
    /\ pc = "awaitExit"
    /\ cmdDone # <<>>
    /\ cmdDone' = Tail(cmdDone)
    /\ AfterWait(Head(cmdDone))
    /\ UNCHANGED <<storeVars, funcVars>>
    /\ UNCHANGED <<cfgProfileType, modelIDs, osEnv, vpc, wpc, validationDone,
                   child, childStatus, killPending, killCalls, exitedFirst,
                   validationErr, tracked, hostExit>>

TrackOutcomes == {"ok", "openFailed", "trackFailed"}

\* a trackSession whose failure would end Launch with an error
AfterTrackFailing(outcome) ==
    IF outcome = "ok" THEN pc' = "finish" /\ result' = result
    ELSE Return(Err("failed to track session"))

\* trackSession returns nothing: whatever the tracker did, Launch goes on
AfterTrack(outcome) ==
    pc' = "finish" /\ result' = result

\* lines 117-119 and 137-139, trackSession (148-174): usage.NewTracker() may
\* fail (nothing is recorded), tracker.TrackSession may fail (a warning)
TrackSession ==
    /\ pc = "track"
    /\ \E outcome \in TrackOutcomes :
          /\ tracked' = Append(tracked, [exitCode |-> exitCode, outcome |-> outcome])
          /\ AfterTrack(outcome)
    /\ UNCHANGED <<storeVars, funcVars>>
    /\ UNCHANGED <<cfgProfileType, modelIDs, osEnv, vpc, wpc, validationDone, cmdDone,
                   child, childStatus, killPending, killCalls, exitedFirst,
                   validationErr, cmdErr, exitCode, hostExit>>

\* lines 121-124 and 141-144: os.Exit(exitCode) or return nil
Finish ==
    /\ pc = "finish"
    /\ IF exitCode # 0
       THEN hostExit' = <<exitCode>> /\ pc' = "exited" /\ result' = result
       ELSE hostExit' = hostExit /\ Return(Nil)
    /\ UNCHANGED <<storeVars, funcVars>>
    /\ UNCHANGED <<cfgProfileType, modelIDs, osEnv, vpc, wpc, validationDone, cmdDone,
                   child, childStatus, killPending, killCalls, exitedFirst,
                   validationErr, cmdErr, exitCode, tracked>>

\* the steps of the goroutine that runs Launch
Coordinator ==
    \/ LookPath
    \/ PrepareEnv
    \/ CmdStart
    \/ SpawnWait
    \/ SelectValidation
    \/ SelectCmd
    \/ Kill
    \/ AwaitKilled
    \/ AwaitExit
    \/ TrackSession
    \/ Finish

LaunchNext ==
    \/ Coordinator
    \/ ValidationSend
    \/ ChildExit
    \/ WaitSend

Terminated == pc \in {"returned", "exited"}

(***************************************************************************)
(* Strings: the functions of package strings and strconv that the program  *)
(* uses, over TLA+ strings.                                                *)
(***************************************************************************)
\* the bytes that occur in the strings of the model, in byte order
Alphabet == "-.0123456789:abcdefghijklmnopqrstuvwxyz"

CharAt(s, i) == SubSeq(s, i, i)

\* the rank of a one-character string in byte order
Ord(ch) == CHOOSE i \in 1..Len(Alphabet) : CharAt(Alphabet, i) = ch

\* strings.Index(s, ch) + 1 for a one-character ch: 0 when ch does not occur
RECURSIVE IndexFrom(_, _, _)
IndexFrom(s, ch, i) ==
    IF i > Len(s) THEN 0
    ELSE IF CharAt(s, i) = ch THEN i
    ELSE IndexFrom(s, ch, i + 1)

IndexOf(s, ch) == IndexFrom(s, ch, 1)

\* strings.Contains(s, ch) for a one-character ch
Contains(s, ch) == IndexOf(s, ch) # 0

\* strings.HasPrefix
HasPrefix(s, prefix) ==
    /\ Len(prefix) <= Len(s)
    /\ SubSeq(s, 1, Len(prefix)) = prefix

\* strings.Split(s, sep) for a one-character sep
RECURSIVE Split(_, _)
Split(s, sep) ==
    LET i == IndexOf(s, sep)
    IN IF i = 0 THEN <<s>>
       ELSE <<SubSeq(s, 1, i - 1)>> \o Split(SubSeq(s, i + 1, Len(s)), sep)

\* strings.SplitN(s, sep, 2) for a one-character sep
SplitN2(s, sep) ==
    LET i == IndexOf(s, sep)
    IN IF i = 0 THEN <<s>>
       ELSE <<SubSeq(s, 1, i - 1), SubSeq(s, i + 1, Len(s))>>

\* the Go operator < on strings: byte-wise lexicographic order
RECURSIVE StrLess(_, _)
StrLess(a, b) ==
    IF b = "" THEN FALSE
    ELSE IF a = "" THEN TRUE
    ELSE IF CharAt(a, 1) # CharAt(b, 1) THEN Ord(CharAt(a, 1)) < Ord(CharAt(b, 1))
    ELSE StrLess(SubSeq(a, 2, Len(a)), SubSeq(b, 2, Len(b)))

Digits == "0123456789"
IsDigit(ch) == Contains(Digits, ch)

RECURSIVE DigitsValue(_)
DigitsValue(s) ==
    IF s = "" THEN 0
    ELSE 10 * DigitsValue(SubSeq(s, 1, Len(s) - 1))
         + (IndexOf(Digits, CharAt(s, Len(s))) - 1)

\* strconv.Atoi: an optional sign and at least one digit, nothing else
Atoi(s) ==
    LET neg == Len(s) > 0 /\ CharAt(s, 1) = "-"
        body == IF neg \/ (Len(s) > 0 /\ CharAt(s, 1) = "+")
                THEN SubSeq(s, 2, Len(s)) ELSE s
    IN IF body # "" /\ \A i \in 1..Len(body) : IsDigit(CharAt(body, i))
       THEN [ok |-> TRUE, n |-> IF neg THEN 0 - DigitsValue(body) ELSE DigitsValue(body)]
       ELSE [ok |-> FALSE, n |-> 0]

(***************************************************************************)
(* package config: version comparison and validation of a record           *)
(***************************************************************************)
\* parts padded with "0" up to length n
RECURSIVE Pad(_, _)
Pad(parts, n) == IF Len(parts) < n THEN Pad(Append(parts, "0"), n) ELSE parts

\* the loop over the parts, from part i on
RECURSIVE ComparePartsFrom(_, _, _)
ComparePartsFrom(parts1, parts2, i) ==
    IF i > Len(parts1) THEN 0
    ELSE LET num1 == Atoi(parts1[i])
             num2 == Atoi(parts2[i])
         IN IF ~num1.ok \/ ~num2.ok
            THEN IF StrLess(parts1[i], parts2[i]) THEN -1
                 ELSE IF StrLess(parts2[i], parts1[i]) THEN 1
                 ELSE ComparePartsFrom(parts1, parts2, i + 1)
            ELSE IF num1.n < num2.n THEN -1
                 ELSE IF num1.n > num2.n THEN 1
                 ELSE ComparePartsFrom(parts1, parts2, i + 1)

\* -1 if v1 < v2, 0 if v1 = v2, 1 if v1 > v2
CompareVersions(v1, v2) ==
    IF v1 = v2 THEN 0
    ELSE IF v1 = "dev" THEN 1
    ELSE IF v2 = "dev" THEN -1
    ELSE LET w1 == IF v1 = "" \/ v1 = "0" THEN "0.0.0" ELSE v1
             w2 == IF v2 = "" \/ v2 = "0" THEN "0.0.0" ELSE v2
             p1 == Split(w1, ".")
             p2 == Split(w2, ".")
             maxLen == IF Len(p2) > Len(p1) THEN Len(p2) ELSE Len(p1)
         IN ComparePartsFrom(Pad(p1, maxLen), Pad(p2, maxLen), 1)

validCrossRegions == {"us", "eu", "global"}

\* Config.Validate: "" when the record is valid, else the message of the error
Validate(c) ==
    IF c.ProfileType # "bedrock" /\ c.ProfileType # "api"
    THEN "profile-type must be either 'bedrock' or 'api'"
    ELSE IF c.ProfileType = "bedrock" /\ c.Profile = ""
    THEN "profile is required for bedrock profile type"
    ELSE IF c.ProfileType = "bedrock" /\ c.Region = ""
    THEN "region is required for bedrock profile type"
    ELSE IF c.ProfileType = "bedrock" /\ c.CrossRegion = ""
    THEN "cross-region is required for bedrock profile type"
    ELSE IF c.ProfileType = "bedrock" /\ c.CrossRegion \notin validCrossRegions
    THEN "invalid cross-region"
    ELSE IF c.ProfileType = "api" /\ c.BaseURL = ""
    THEN "base-url is required for api profile type"
    ELSE IF c.ProfileType = "api" /\ c.APIKeyID = ""
    THEN "api-key-id is required for api profile type"
    ELSE IF c.Model = "" THEN "model is required"
    ELSE IF c.FastModel = "" THEN "fast-model is required"
    ELSE IF c.HeavyModel = "" THEN "heavy-model is required"
    ELSE ""

(***************************************************************************)
(* internal/aws/bedrock.go: identifiers and their resolution               *)
(***************************************************************************)
\* IsFullProfileID: the text before the first "." is us, eu or global
IsFullProfileID(id) ==
    LET parts == SplitN2(id, ".")
    IN IF Len(parts) < 2 THEN FALSE ELSE parts[1] \in {"us", "eu", "global"}

\* strings.Join(parts, sep)
RECURSIVE Join(_, _)
Join(parts, sep) ==
    IF parts = <<>> THEN ""
    ELSE IF Len(parts) = 1 THEN parts[1]
    ELSE parts[1] \o sep \o Join(Tail(parts), sep)

\* the parts before the first one that is 8 characters long, starts with "v"
\* or holds a ":"
RECURSIVE modelParts(_)
modelParts(parts) ==
    IF parts = <<>> THEN <<>>
    ELSE IF Len(Head(parts)) = 8 \/ HasPrefix(Head(parts), "v") \/ Contains(Head(parts), ":")
         THEN <<>>
         ELSE <<Head(parts)>> \o modelParts(Tail(parts))

\* extractModelNameFromVersion
extractModelNameFromVersion(modelWithVersion) ==
    Join(modelParts(Split(modelWithVersion, "-")), "-")

\* ExtractFriendlyModelName: provider.model of a full identifier; the input
\* itself when it is not full or when no model name is left
ExtractFriendlyModelName(profileID) ==
    IF ~IsFullProfileID(profileID) THEN profileID
    ELSE LET remaining == SplitN2(profileID, ".")[2]
             firstDotIndex == IndexOf(remaining, ".")
         IN IF firstDotIndex = 0 THEN remaining
            ELSE LET provider == SubSeq(remaining, 1, firstDotIndex - 1)
                     modelWithVersion == SubSeq(remaining, firstDotIndex + 1, Len(remaining))
                     modelName == extractModelNameFromVersion(modelWithVersion)
                 IN IF modelName # "" THEN provider \o "." \o modelName
                    ELSE profileID

\* a catalog is the sequence of profiles ListInferenceProfiles answered, each
\* given by its InferenceProfileId; NilId stands for a profile whose
\* InferenceProfileId is nil
NilId == "nil"

RECURSIVE findMatchingProfile(_, _, _)
\* a findMatchingProfile that keeps looking after a match and returns the last
findLastMatchingProfile(catalog, crossRegion, model) ==
    LET hits == {i \in 1..Len(catalog) :
                    /\ catalog[i] # NilId
                    /\ HasPrefix(catalog[i], crossRegion \o "." \o model)}
    IN IF hits = {} THEN [ok |-> FALSE, id |-> ""]
       ELSE [ok |-> TRUE, id |-> catalog[CHOOSE i \in hits : \A j \in hits : j <= i]]

\* findMatchingProfile: the first profile of the catalog whose identifier is
\* not nil and starts with crossRegion + "." + model
findMatchingProfile(catalog, crossRegion, model) ==
    IF catalog = <<>> THEN [ok |-> FALSE, id |-> ""]
    ELSE IF Head(catalog) # NilId /\ HasPrefix(Head(catalog), crossRegion \o "." \o model)
         THEN [ok |-> TRUE, id |-> Head(catalog)]
         ELSE findMatchingProfile(Tail(catalog), crossRegion, model)

\* formatAvailableProfiles: the identifiers the error text lists, one line
\* each, in catalog order
RECURSIVE formatAvailableProfiles(_)
formatAvailableProfiles(catalog) ==
    IF catalog = <<>> THEN <<>>
    ELSE IF Head(catalog) # NilId
         THEN <<Head(catalog)>> \o formatAvailableProfiles(Tail(catalog))
         ELSE formatAvailableProfiles(Tail(catalog))

\* a ResolveModelToProfileID without the return for full identifiers
ResolveAlwaysFetching(net, crossRegion, model) ==
    IF net.fetch = "configError"
    THEN [ok |-> FALSE, id |-> "", fetched |-> TRUE, err |-> "failed to load AWS config",
          available |-> <<>>]
    ELSE IF net.fetch = "listError"
    THEN [ok |-> FALSE, id |-> "", fetched |-> TRUE,
          err |-> "failed to list inference profiles", available |-> <<>>]
    ELSE LET m == findMatchingProfile(net.catalog, crossRegion, model)
         IN IF m.ok
            THEN [ok |-> TRUE, id |-> m.id, fetched |-> TRUE, err |-> "",
                  available |-> <<>>]
            ELSE [ok |-> FALSE, id |-> "", fetched |-> TRUE,
                  err |-> "could not find inference profile",
                  available |-> formatAvailableProfiles(net.catalog)]

\* ResolveModelToProfileID against what the network answers (net.fetch, and
\* net.catalog when the fetch succeeds).  fetched tells whether the function
\* went on to fetch the catalog (loading the AWS configuration is the first
\* step of the fetch); err is the error's leading text ("" for nil) and
\* available the identifiers listed after "Available profiles:"
ResolveModelToProfileID(net, crossRegion, model) ==
    IF IsFullProfileID(model)
    THEN [ok |-> TRUE, id |-> model, fetched |-> FALSE, err |-> "", available |-> <<>>]
    ELSE IF net.fetch = "configError"
    THEN [ok |-> FALSE, id |-> "", fetched |-> TRUE, err |-> "failed to load AWS config",
          available |-> <<>>]
    ELSE IF net.fetch = "listError"
    THEN [ok |-> FALSE, id |-> "", fetched |-> TRUE,
          err |-> "failed to list inference profiles", available |-> <<>>]
    ELSE LET m == findMatchingProfile(net.catalog, crossRegion, model)
         IN IF m.ok
            THEN [ok |-> TRUE, id |-> m.id, fetched |-> TRUE, err |-> "",
                  available |-> <<>>]
            ELSE [ok |-> FALSE, id |-> "", fetched |-> TRUE,
                  err |-> "could not find inference profile",
                  available |-> formatAvailableProfiles(net.catalog)]

\* a parseProfileID that does not look at the geography of the identifier
parseProfileIDAnyGeography(profileID, crossRegionPrefix) ==
    LET remaining == SubSeq(profileID, IndexOf(profileID, ".") + 1, Len(profileID))
        firstDotIndex == IndexOf(remaining, ".")
    IN IF firstDotIndex = 0 THEN [ok |-> FALSE, provider |-> "", modelName |-> ""]
       ELSE LET modelName == extractModelNameFromVersion(
                                 SubSeq(remaining, firstDotIndex + 1, Len(remaining)))
            IN IF modelName = "" THEN [ok |-> FALSE, provider |-> "", modelName |-> ""]
               ELSE [ok |-> TRUE, provider |-> SubSeq(remaining, 1, firstDotIndex - 1),
                     modelName |-> modelName]

\* parseProfileID: provider and model name of an identifier of the given
\* geography
parseProfileID(profileID, crossRegionPrefix) ==
    IF ~HasPrefix(profileID, crossRegionPrefix \o ".")
    THEN [ok |-> FALSE, provider |-> "", modelName |-> ""]
    ELSE LET remaining == SubSeq(profileID, Len(crossRegionPrefix) + 2, Len(profileID))
             firstDotIndex == IndexOf(remaining, ".")
         IN IF firstDotIndex = 0 THEN [ok |-> FALSE, provider |-> "", modelName |-> ""]
            ELSE LET modelName == extractModelNameFromVersion(
                                      SubSeq(remaining, firstDotIndex + 1, Len(remaining)))
                 IN IF modelName = ""
                    THEN [ok |-> FALSE, provider |-> "", modelName |-> ""]
                    ELSE [ok |-> TRUE,
                          provider |-> SubSeq(remaining, 1, firstDotIndex - 1),
                          modelName |-> modelName]

\* parseModelName: provider and model of "provider.model-name"
parseModelName(fullModelName) ==
    LET parts == SplitN2(fullModelName, ".")
    IN IF Len(parts) # 2 THEN [ok |-> FALSE, provider |-> "", modelName |-> ""]
       ELSE [ok |-> TRUE, provider |-> parts[1], modelName |-> parts[2]]

\* the keys of modelMap after the loop over the catalog: the names
\* provider.modelName of the identifiers that parse
modelMap(catalog, crossRegion) ==
    {p.provider \o "." \o p.modelName :
        p \in {q \in {parseProfileID(catalog[i], crossRegion) :
                         i \in {j \in 1..Len(catalog) : catalog[j] # NilId}} : q.ok}}

\* the less function of GetAvailableModels' sort.Slice
lessByProviderThenModel(a, b) ==
    LET pa == parseModelName(a)
        pb == parseModelName(b)
    IN IF ~pa.ok \/ ~pb.ok THEN StrLess(a, b)
       ELSE IF pa.provider # pb.provider THEN StrLess(pa.provider, pb.provider)
       ELSE StrLess(pa.modelName, pb.modelName)

\* sort.Slice of the names of a set under lessByProviderThenModel
RECURSIVE sortByProviderThenModel(_)
sortByProviderThenModel(names) ==
    IF names = {} THEN <<>>
    ELSE LET first == CHOOSE a \in names :
                          \A b \in names \ {a} : lessByProviderThenModel(a, b)
         IN <<first>> \o sortByProviderThenModel(names \ {first})

\* sort.Slice of the names of a set under models[i].Name < models[j].Name
RECURSIVE sortByName(_)
sortByName(names) ==
    IF names = {} THEN <<>>
    ELSE LET first == CHOOSE a \in names : \A b \in names \ {a} : StrLess(a, b)
         IN <<first>> \o sortByName(names \ {first})

\* GetAvailableModels against what the network answers
GetAvailableModels(net, crossRegion) ==
    IF net.fetch = "configError"
    THEN [ok |-> FALSE, err |-> "failed to load AWS config", models |-> <<>>]
    ELSE IF net.fetch = "listError"
    THEN [ok |-> FALSE, err |-> "failed to list inference profiles", models |-> <<>>]
    ELSE LET models == sortByProviderThenModel(modelMap(net.catalog, crossRegion))
         IN IF Len(models) = 0
            THEN [ok |-> FALSE, err |-> "no models found", models |-> <<>>]
            ELSE [ok |-> TRUE, err |-> "", models |-> models]

\* GetAvailableModelsDetailed against what the network answers; models holds
\* the Name of each ModelInfo (Provider and Model are the two parts of Name)
GetAvailableModelsDetailed(net, crossRegion) ==
    IF net.fetch = "configError"
    THEN [ok |-> FALSE, err |-> "failed to load AWS config", models |-> <<>>]
    ELSE IF net.fetch = "listError"
    THEN [ok |-> FALSE, err |-> "failed to list inference profiles", models |-> <<>>]
    ELSE LET models == sortByName(modelMap(net.catalog, crossRegion))
         IN IF Len(models) = 0
            THEN [ok |-> FALSE, err |-> "no models found", models |-> <<>>]
            ELSE [ok |-> TRUE, err |-> "", models |-> models]

(***************************************************************************)
(* internal/migrations/manager.go                                          *)
(*                                                                         *)
(* A migration in progress is a record ms: cfg is the record in memory,    *)
(* disk the record as persisted under the profile's name, calls the number *)
(* of resolver calls made, steps the steps that changed the record, err    *)
(* the error ("" for none) and errAt the step that returned it.            *)
(***************************************************************************)
\* a NeedsMigration without the early return for an empty version
NeedsMigrationOfEmpty(cliVersion, configVersion) ==
    IF cliVersion = "dev" THEN FALSE
    ELSE CompareVersions(configVersion, cliVersion) < 0

\* NeedsMigration(configVersion) of a manager made for cliVersion
NeedsMigration(cliVersion, configVersion) ==
    IF cliVersion = "dev" THEN FALSE
    ELSE IF configVersion = "" THEN FALSE
    ELSE CompareVersions(configVersion, cliVersion) < 0

\* a shouldRunMigration that would also run a step on a record of the target
\* version
shouldRunMigrationOrEqual(oldVersion, targetVersion) ==
    IF oldVersion = "" THEN TRUE
    ELSE CompareVersions(oldVersion, targetVersion) <= 0

\* shouldRunMigration: oldVersion < targetVersion, and always for no version
shouldRunMigration(oldVersion, targetVersion) ==
    IF oldVersion = "" THEN TRUE
    ELSE CompareVersions(oldVersion, targetVersion) < 0

\* saver.Save(profileName, cfg) at the end of a step: Manager.Save validates
\* the record and writes it
StepSave(ms, step) ==
    IF Validate(ms.cfg) # ""
    THEN [ms EXCEPT !.err = "failed to save migrated config", !.errAt = step]
    ELSE [ms EXCEPT !.disk = ms.cfg]

migrateToV060(ms) ==
    IF ms.cfg.ProfileType # "" THEN ms
    ELSE StepSave([ms EXCEPT !.cfg.ProfileType = "bedrock",
                             !.steps = @ \cup {"v0.6.0"}], "v0.6.0")

\* nets[1] answers the resolution of the main model, nets[2] the one of the
\* fast model (the catalog is fetched anew by every call)
migrateToV040(ms, nets) ==
    LET cfg == ms.cfg
        modelIsFullID == cfg.Model = "" \/ IsFullProfileID(cfg.Model)
        fastModelIsFullID == cfg.FastModel = "" \/ IsFullProfileID(cfg.FastModel)
        main == ResolveModelToProfileID(nets[1], cfg.CrossRegion, cfg.Model)
        fast == ResolveModelToProfileID(nets[2], cfg.CrossRegion, cfg.FastModel)
        callMain == cfg.Model # "" /\ ~modelIsFullID
        callFast == cfg.FastModel # "" /\ ~fastModelIsFullID
        afterMain == IF callMain
                     THEN [ms EXCEPT !.cfg.Model = main.id, !.calls = @ + 1,
                                     !.steps = @ \cup {"v0.4.0"}]
                     ELSE ms
        afterFast == IF callFast
                     THEN [afterMain EXCEPT !.cfg.FastModel = fast.id, !.calls = @ + 1,
                                            !.steps = @ \cup {"v0.4.0"}]
                     ELSE afterMain
    IN IF cfg.Model = "" /\ cfg.FastModel = "" THEN ms
       ELSE IF modelIsFullID /\ fastModelIsFullID THEN ms
       ELSE IF callMain /\ ~main.ok
            THEN [ms EXCEPT !.calls = @ + 1, !.err = "failed to resolve main model",
                            !.errAt = "v0.4.0"]
       ELSE IF callFast /\ ~fast.ok
            THEN [afterMain EXCEPT !.calls = @ + 1, !.err = "failed to resolve fast model",
                                   !.errAt = "v0.4.0"]
       ELSE StepSave(afterFast, "v0.4.0")

migrateToV050(ms) ==
    IF ms.cfg.HeavyModel # "" THEN ms
    ELSE IF ms.cfg.Model = "" THEN ms
    ELSE StepSave([ms EXCEPT !.cfg.HeavyModel = ms.cfg.Model,
                             !.steps = @ \cup {"v0.5.0"}], "v0.5.0")

\* a MigrateProfile without the check of the profile type
MigrateProfileForAllTypes(cliVersion, oldVersion, ms, nets) ==
    IF cliVersion = "dev" THEN ms
    ELSE LET a == IF shouldRunMigration(oldVersion, "v0.6.0") THEN migrateToV060(ms) ELSE ms
             b == IF shouldRunMigration(oldVersion, "v0.4.0")
                  THEN migrateToV040(a, nets) ELSE a
             c == IF shouldRunMigration(oldVersion, "v0.5.0") THEN migrateToV050(b) ELSE b
         IN IF a.err # "" THEN a
            ELSE IF b.err # "" THEN b
            ELSE c

\* MigrateProfile: v0.6.0 first, then, unless the record is of the api type,
\* v0.4.0 and v0.5.0; the first error ends it
MigrateProfile(cliVersion, oldVersion, ms, nets) ==
    IF cliVersion = "dev" THEN ms
    ELSE LET a == IF shouldRunMigration(oldVersion, "v0.6.0") THEN migrateToV060(ms) ELSE ms
             b == IF shouldRunMigration(oldVersion, "v0.4.0")
                  THEN migrateToV040(a, nets) ELSE a
             c == IF shouldRunMigration(oldVersion, "v0.5.0") THEN migrateToV050(b) ELSE b
         IN IF a.err # "" THEN a
            ELSE IF a.cfg.ProfileType = "api" THEN a
            ELSE IF b.err # "" THEN b
            ELSE c

(***************************************************************************)
(* internal/profiles/manager.go: the store is a record st of the profile   *)
(* files, the current-profile file and the legacy config.json              *)
(***************************************************************************)
ProfileNames == {"default", "work"}

\* no file
Absent == [absent |-> TRUE]

\* GetCurrent: "default" when the file is missing or blank
GetCurrent(cur) == IF cur = "" THEN "default" ELSE cur

Exists(st, name) == st.profiles[name] # Absent

createDefaultConfig(cliVersion) ==
    [Version |-> IF cliVersion # "dev" THEN cliVersion ELSE "",
     ProfileType |-> "bedrock", Profile |-> "", Region |-> "us-east-1",
     CrossRegion |-> "global", BaseURL |-> "", APIKeyID |-> "",
     Model |-> "", FastModel |-> "", HeavyModel |-> ""]

\* a legacy migration that would not look whether profiles/default.json exists
MigrateFromLegacyConfigAgain(st, renameOk) ==
    IF st.legacy = Absent THEN [st |-> st, err |-> ""]
    ELSE IF Validate(st.legacy) # ""
    THEN [st |-> st, err |-> "failed to save default profile"]
    ELSE [st |-> [profiles |-> [st.profiles EXCEPT !["default"] = st.legacy],
                  current |-> "default",
                  legacy |-> IF renameOk THEN Absent ELSE st.legacy],
          err |-> ""]

\* MigrateFromLegacyConfig: config.json becomes profiles/default.json, once.
\* renameOk: whether config.json could be renamed to config.json.bak
MigrateFromLegacyConfig(st, renameOk) ==
    IF st.legacy = Absent THEN [st |-> st, err |-> ""]
    ELSE IF Exists(st, "default") THEN [st |-> st, err |-> ""]
    ELSE IF Validate(st.legacy) # ""
    THEN [st |-> st, err |-> "failed to save default profile"]
    ELSE [st |-> [profiles |-> [st.profiles EXCEPT !["default"] = st.legacy],
                  current |-> "default",
                  legacy |-> IF renameOk THEN Absent ELSE st.legacy],
          err |-> ""]

NoRecord == [none |-> TRUE]

\* what a call of GetCurrentConfig leaves: the store, and what it returned
Outcome(st, cliVersion, name, loaded, migrated, ms, err, errAt) ==
    [st |-> st, cli |-> cliVersion, name |-> name,
     after |-> IF name = "" THEN NoRecord ELSE st.profiles[name],
     loaded |-> loaded, migrated |-> migrated,
     ok |-> err = "", err |-> err, errAt |-> errAt, cause |-> ms.err,
     cfg |-> IF err = "" THEN ms.cfg ELSE NoRecord,
     calls |-> ms.calls, steps |-> ms.steps]

NewMigration(cfg) ==
    [cfg |-> cfg, disk |-> cfg, calls |-> 0, steps |-> {}, err |-> "", errAt |-> ""]

\* a stamp that would change the record in memory only
StampWithoutSave(st, cliVersion, name, loaded, ms) ==
    LET stamped == [ms EXCEPT !.cfg.Version = cliVersion]
        stepped == [profiles |-> [st.profiles EXCEPT ![name] = ms.disk],
                    current |-> st.current, legacy |-> st.legacy]
    IN IF cliVersion = "dev"
       THEN Outcome(stepped, cliVersion, name, loaded, TRUE, ms, "", "")
       ELSE Outcome(stepped, cliVersion, name, loaded, TRUE, stamped, "", "")

\* the version stamp and the save of lines 569-575
StampAndSave(st, cliVersion, name, loaded, ms) ==
    LET stamped == [ms EXCEPT !.cfg.Version = cliVersion]
        stepped == [profiles |-> [st.profiles EXCEPT ![name] = ms.disk],
                    current |-> st.current, legacy |-> st.legacy]
        saved == [profiles |-> [st.profiles EXCEPT ![name] = stamped.cfg],
                  current |-> st.current, legacy |-> st.legacy]
    IN IF cliVersion = "dev"
       THEN Outcome(stepped, cliVersion, name, loaded, TRUE, ms, "", "")
       ELSE IF Validate(stamped.cfg) # ""
       THEN Outcome(stepped, cliVersion, name, loaded, TRUE, stamped,
                    "failed to save migrated config", "stamp")
       ELSE Outcome(saved, cliVersion, name, loaded, TRUE, stamped, "", "")

\* the value of an expression that is computed once
TheOne(S) == CHOOSE x \in S : TRUE

GetCurrentConfig(st0, cliVersion, nets, renameOk) ==
    LET leg == MigrateFromLegacyConfig(st0, renameOk)
        st == leg.st
        name == GetCurrent(st.current)
        fresh == createDefaultConfig(cliVersion)
        created == [profiles |-> [st.profiles EXCEPT ![name] = fresh],
                    current |-> name, legacy |-> st.legacy]
        cfg == st.profiles[name]
    IN IF leg.err # ""
       THEN Outcome(st0, cliVersion, "", NoRecord, FALSE,
                    NewMigration(NoRecord), "migration failed", "legacy")
       ELSE IF ~Exists(st, name)
       THEN Outcome(created, cliVersion, name, NoRecord, FALSE,
                    NewMigration(fresh), "", "")
       ELSE IF ~NeedsMigration(cliVersion, cfg.Version)
       THEN Outcome(st, cliVersion, name, cfg, FALSE, NewMigration(cfg), "", "")
       ELSE TheOne({IF ms.err # ""
                    THEN Outcome([profiles |-> [st.profiles EXCEPT ![name] = ms.disk],
                                  current |-> st.current, legacy |-> st.legacy],
                                 cliVersion, name, cfg, TRUE, ms,
                                 "failed to migrate profile", ms.errAt)
                    ELSE StampAndSave(st, cliVersion, name, cfg, ms) :
                       ms \in {MigrateProfile(cliVersion, cfg.Version,
                                              NewMigration(cfg), nets)}})

(***************************************************************************)
(* The profile store under repeated loads (every config-reading command    *)
(* calls GetCurrentConfig)                                                 *)
(***************************************************************************)
FriendlyMain == "anthropic.claude-sonnet-4-5"
FullMain == "global.anthropic.claude-sonnet-4-5-20250929-v1:0"
FriendlyFast == "anthropic.claude-haiku-4-5"
FullFast == "global.anthropic.claude-haiku-4-5-20251001-v1:0"

\* versions found in stored records, and the versions of the running binary
StoredVersions == {"", "0.3.0", "v0.5.0", "v0.6.1"}
CliVersions == {"v0.6.1", "dev"}

\* records of the cloud-routed shape (profile-type absent or bedrock), and
\* records of the direct-API shape
StoredRecords ==
    [Version : StoredVersions, ProfileType : {"", "bedrock"}, Profile : {"", "default"},
     Region : {"us-east-1"}, CrossRegion : {"global"}, BaseURL : {""}, APIKeyID : {""},
     Model : {"", FriendlyMain, FullMain},
     FastModel : {"", FriendlyFast, FullFast},
     HeavyModel : {"", FullMain}]
    \cup
    [Version : StoredVersions, ProfileType : {"api"}, Profile : {""},
     Region : {""}, CrossRegion : {""}, BaseURL : {"https://api.anthropic.com"},
     APIKeyID : {"key-1"},
     Model : {"claude-sonnet-4-5"}, FastModel : {"claude-haiku-4-5"},
     HeavyModel : {"", "claude-opus-4-1"}]

\* a config.json left by a release that wrote profile-type, and one left by
\* a release before versions and provider prefixes
LegacyFiles ==
    {Absent,
     [Version |-> "0.6.0", ProfileType |-> "bedrock", Profile |-> "default",
      Region |-> "us-east-1", CrossRegion |-> "global", BaseURL |-> "", APIKeyID |-> "",
      Model |-> FriendlyMain, FastModel |-> FriendlyFast, HeavyModel |-> FriendlyMain],
     [Version |-> "", ProfileType |-> "", Profile |-> "default",
      Region |-> "us-east-1", CrossRegion |-> "global", BaseURL |-> "", APIKeyID |-> "",
      Model |-> "claude-sonnet-4-5", FastModel |-> "claude-haiku-4-5", HeavyModel |-> ""]}

\* what the network answers to one catalog fetch
Nets ==
    {[fetch |-> "ok", catalog |-> <<FullMain, "us.anthropic.claude-haiku-4-5-20251001-v1:0",
                                    FullFast>>],
     [fetch |-> "listError", catalog |-> <<>>]}

NoLoad == [none |-> TRUE]

StoreInit ==
    /\ current \in {"", "work"}
    /\ \E rec \in StoredRecords \cup {Absent} :
          profiles = [n \in ProfileNames |-> IF n = GetCurrent(current) THEN rec ELSE Absent]
    /\ legacy \in LegacyFiles
    /\ lastLoad = NoLoad
    /\ prevLoad = NoLoad

\* a command loads the current profile with the version of the running binary
LoadCurrentConfig ==
    /\ \E cliVersion \in CliVersions, n1 \in Nets, n2 \in Nets, renameOk \in BOOLEAN :
          \E o \in {GetCurrentConfig([profiles |-> profiles, current |-> current,
                                      legacy |-> legacy], cliVersion, <<n1, n2>>, renameOk)} :
             /\ profiles' = o.st.profiles
             /\ current' = o.st.current
             /\ legacy' = o.st.legacy
             /\ lastLoad' = [cli |-> o.cli, name |-> o.name, after |-> o.after,
                             loaded |-> o.loaded, migrated |-> o.migrated, ok |-> o.ok,
                             err |-> o.err, errAt |-> o.errAt, cause |-> o.cause,
                             cfg |-> o.cfg, calls |-> o.calls, steps |-> o.steps]
    /\ prevLoad' = lastLoad
    /\ UNCHANGED <<launchVars, funcVars>>

(***************************************************************************)
(* cmd/root.go (src/unnamed/part_004): runRoot, from the flags to the call *)
(* of launcher.Launch                                                      *)
(***************************************************************************)
\* the record the interactive setup saves: the identifiers it stores are
\* results of ResolveModelToProfileID
ConfiguredRecord(cliVersion) ==
    [Version |-> IF cliVersion # "dev" THEN cliVersion ELSE "",
     ProfileType |-> "bedrock", Profile |-> "default", Region |-> "us-east-1",
     CrossRegion |-> "global", BaseURL |-> "", APIKeyID |-> "",
     Model |-> FullMain, FastModel |-> FullFast, HeavyModel |-> FullMain]

\* what runRoot returns with: an error before Launch, or the arguments of
\* Launch
RootError(st, msg) ==
    [st |-> st, launched |-> FALSE, err |-> msg, profileType |-> "", ids |-> <<>>]

\* lines 103-247: the overrides of the flags on the loaded record, the
\* validation, and the call of Launch
ApplyOverrides(st, cfg0, flags, keyringOk) ==
    LET cfg1 == [cfg0 EXCEPT !.ProfileType = IF flags.profileType # "" THEN flags.profileType
                                             ELSE @]
        cfg == [cfg0 EXCEPT
                  !.ProfileType = IF flags.profileType # "" THEN flags.profileType ELSE @,
                  !.Profile = IF flags.awsProfile # "" THEN flags.awsProfile ELSE @,
                  !.Region = IF flags.region # "" THEN flags.region ELSE @,
                  !.CrossRegion = IF flags.crossRegion # "" THEN flags.crossRegion ELSE @,
                  !.BaseURL = IF flags.baseURL # "" THEN flags.baseURL ELSE @,
                  !.APIKeyID = IF flags.apiKey # "" THEN "temporary" ELSE @,
                  !.Model = IF flags.model # "" THEN flags.model ELSE @,
                  !.FastModel = IF flags.fastModel # "" THEN flags.fastModel ELSE @,
                  !.HeavyModel = IF flags.heavyModel # "" THEN flags.heavyModel ELSE @]
    IN IF flags.profileType \notin {"", "bedrock", "api"}
       THEN RootError(st, "--clauderock-profile-type must be either 'bedrock' or 'api'")
       ELSE IF flags.awsProfile # "" /\ cfg1.ProfileType # "bedrock"
       THEN RootError(st, "--clauderock-aws-profile can only be used with bedrock")
       ELSE IF flags.region # "" /\ cfg1.ProfileType # "bedrock"
       THEN RootError(st, "--clauderock-region can only be used with bedrock")
       ELSE IF flags.crossRegion # "" /\ cfg1.ProfileType # "bedrock"
       THEN RootError(st, "--clauderock-cross-region can only be used with bedrock")
       ELSE IF flags.baseURL # "" /\ cfg1.ProfileType # "api"
       THEN RootError(st, "--clauderock-base-url can only be used with api")
       ELSE IF flags.apiKey # "" /\ cfg1.ProfileType # "api"
       THEN RootError(st, "--clauderock-api-key can only be used with api")
       ELSE IF flags.apiKey # "" /\ ~keyringOk
       THEN RootError(st, "failed to store temporary API key")
       ELSE IF flags.model # "" /\ cfg1.ProfileType = "bedrock"
               /\ ~IsFullProfileID(flags.model)
       THEN RootError(st, "--clauderock-model must be a full profile ID for bedrock")
       ELSE IF flags.fastModel # "" /\ cfg1.ProfileType = "bedrock"
               /\ ~IsFullProfileID(flags.fastModel)
       THEN RootError(st, "--clauderock-fast-model must be a full profile ID for bedrock")
       ELSE IF flags.heavyModel # "" /\ cfg1.ProfileType = "bedrock"
               /\ ~IsFullProfileID(flags.heavyModel)
       THEN RootError(st, "--clauderock-heavy-model must be a full profile ID for bedrock")
       ELSE IF Validate(cfg) # "" THEN RootError(st, "invalid configuration")
       ELSE IF cfg.Model = "" \/ cfg.FastModel = "" \/ cfg.HeavyModel = ""
       THEN RootError(st, "model configuration is incomplete")
       ELSE [st |-> st, launched |-> TRUE, err |-> "", profileType |-> cfg.ProfileType,
             ids |-> <<cfg.Model, cfg.FastModel, cfg.HeavyModel>>]

\* lines 90-101: the interactive setup on an incomplete record, then the
\* reload.  setup is what became of the setup: "failed" (a selection was
\* cancelled or a fetch failed) or "saved"
InteractiveSetup(st0, cliVersion, flags, env) ==
    TheOne({IF ~first.ok THEN RootError(first.st, "configuration setup failed")
            ELSE IF env.setup = "failed"
            THEN RootError(first.st, "configuration setup failed")
            ELSE TheOne({IF ~again.ok
                         THEN RootError(again.st, "failed to reload config after setup")
                         ELSE ApplyOverrides(again.st, again.cfg, flags, env.keyringOk) :
                            again \in {GetCurrentConfig(
                                [profiles |-> [first.st.profiles EXCEPT
                                                 ![GetCurrent(first.st.current)] =
                                                     ConfiguredRecord(cliVersion)],
                                 current |-> first.st.current, legacy |-> first.st.legacy],
                                cliVersion, <<env.net, env.net>>, env.renameOk)}}) :
               first \in {GetCurrentConfig(st0, cliVersion, <<env.net, env.net>>,
                                           env.renameOk)}})

\* runRoot.  env.incomplete is the answer of cfg.IsIncomplete(), a method
\* that the sources do not hold: either answer is taken
runRoot(st0, cliVersion, flags, env) ==
    TheOne({IF ~loaded.ok THEN RootError(loaded.st, loaded.err)
            ELSE IF env.incomplete
            THEN InteractiveSetup(loaded.st, cliVersion, flags, env)
            ELSE ApplyOverrides(loaded.st, loaded.cfg, flags, env.keyringOk) :
               loaded \in {IF flags.profile # ""
                           THEN [ok |-> Exists(st0, flags.profile), st |-> st0,
                                 cfg |-> st0.profiles[flags.profile],
                                 err |-> "failed to load profile"]
                           ELSE [ok |-> o.ok, st |-> o.st, cfg |-> o.cfg,
                                 err |-> "failed to load config"] :
                              o \in {GetCurrentConfig(st0, cliVersion,
                                                      <<env.net, env.net>>,
                                                      env.renameOk)}}})

\* the flags of one run: none or a profile, with model overrides that are
\* full identifiers or friendly names; and one override of each other flag
NoFlags ==
    [profile |-> "", profileType |-> "", model |-> "", fastModel |-> "",
     heavyModel |-> "", awsProfile |-> "", region |-> "", crossRegion |-> "",
     baseURL |-> "", apiKey |-> ""]

RootFlags ==
    {[NoFlags EXCEPT !.profile = p, !.model = m, !.heavyModel = h] :
        p \in {"", "work"}, m \in {"", FriendlyMain, FullMain}, h \in {"", FullMain}}
      \cup {[NoFlags EXCEPT !.profileType = t] : t \in {"bedrock", "api", "vertex"}}
      \cup {[NoFlags EXCEPT !.fastModel = FriendlyFast],
            [NoFlags EXCEPT !.awsProfile = "dev"],
            [NoFlags EXCEPT !.profileType = "api", !.apiKey = "sk-1"]}

\* what the environment does during one run
RootEnvs ==
    [net : Nets, renameOk : BOOLEAN, keyringOk : BOOLEAN, incomplete : {FALSE},
     setup : {"none"}]
      \cup [net : Nets, renameOk : {TRUE}, keyringOk : {TRUE}, incomplete : {TRUE},
            setup : {"failed", "saved"}]

\* the records found in the profiles: migrated, to be migrated, with a
\* friendly heavy model, of a fresh install, and of the direct-API shape
RootRecords ==
    {[Version |-> "v0.6.1", ProfileType |-> "bedrock", Profile |-> "default",
      Region |-> "us-east-1", CrossRegion |-> "global", BaseURL |-> "", APIKeyID |-> "",
      Model |-> FullMain, FastModel |-> FullFast, HeavyModel |-> FullMain],
     [Version |-> "0.3.0", ProfileType |-> "", Profile |-> "default",
      Region |-> "us-east-1", CrossRegion |-> "global", BaseURL |-> "", APIKeyID |-> "",
      Model |-> FriendlyMain, FastModel |-> FriendlyFast, HeavyModel |-> FullMain],
     [Version |-> "v0.5.0", ProfileType |-> "bedrock", Profile |-> "default",
      Region |-> "us-east-1", CrossRegion |-> "global", BaseURL |-> "", APIKeyID |-> "",
      Model |-> FullMain, FastModel |-> FullFast, HeavyModel |-> "anthropic.claude-opus-4-1"],
     createDefaultConfig("v0.6.1"),
     [Version |-> "v0.6.1", ProfileType |-> "api", Profile |-> "", Region |-> "",
      CrossRegion |-> "", BaseURL |-> "https://api.anthropic.com", APIKeyID |-> "key-1",
      Model |-> "claude-sonnet-4-5", FastModel |-> "claude-haiku-4-5",
      HeavyModel |-> "claude-opus-4-1"]}

\* the records of the profile work: none, the one with a friendly heavy
\* model, and the one of the direct-API shape
WorkRecords ==
    {Absent} \cup {r \in RootRecords : r.Version = "v0.5.0" \/ r.ProfileType = "api"}

\* the profile store before a run
RootInit ==
    /\ current \in {"", "work"}
    /\ \E r1 \in RootRecords \cup {Absent}, r2 \in WorkRecords :
          profiles = [n \in ProfileNames |-> IF n = "default" THEN r1 ELSE r2]
    /\ legacy \in {Absent, CHOOSE f \in LegacyFiles : f # Absent /\ f.Version = "0.6.0"}
    /\ lastLoad = NoLoad
    /\ prevLoad = NoLoad

(***************************************************************************)
(* internal/profiles/manager.go: the operations on named profiles.  The    *)
(* profiles directory is the function profiles and the file "current" the  *)
(* string current; reads and writes of these files succeed.  call records  *)
(* the latest operation, the active profile before it, and its error.      *)
(***************************************************************************)
ManagerNames == {"default", "work", "spare"}

\* the records Save is called with: of either profile type, and one that
\* Validate rejects
ManagerRecords ==
    {ConfiguredRecord("v0.6.1"), createDefaultConfig("v0.6.1"),
     [Version |-> "v0.6.1", ProfileType |-> "api", Profile |-> "", Region |-> "",
      CrossRegion |-> "", BaseURL |-> "https://api.anthropic.com", APIKeyID |-> "key-1",
      Model |-> "claude-sonnet-4-5", FastModel |-> "claude-haiku-4-5",
      HeavyModel |-> "claude-opus-4-1"]}

\* Manager.Save
Save ==
    /\ \E name \in ManagerNames, cfg \in ManagerRecords :
          IF Validate(cfg) # ""
          THEN /\ call' = [fn |-> "Save", name |-> name, active |-> GetCurrent(current),
                           err |-> "invalid configuration"]
               /\ UNCHANGED profiles
          ELSE /\ call' = [fn |-> "Save", name |-> name, active |-> GetCurrent(current),
                           err |-> ""]
               /\ profiles' = [profiles EXCEPT ![name] = cfg]
    /\ UNCHANGED <<launchVars, current, legacy, lastLoad, prevLoad>>

\* a Delete that would not look at the active profile
DeleteActive ==
    /\ \E name \in ManagerNames :
          IF name = "default"
          THEN /\ call' = [fn |-> "Delete", name |-> name, active |-> GetCurrent(current),
                           err |-> "cannot delete default profile"]
               /\ UNCHANGED profiles
          ELSE IF profiles[name] = Absent
          THEN /\ call' = [fn |-> "Delete", name |-> name, active |-> GetCurrent(current),
                           err |-> "profile does not exist"]
               /\ UNCHANGED profiles
          ELSE /\ call' = [fn |-> "Delete", name |-> name, active |-> GetCurrent(current),
                           err |-> ""]
               /\ profiles' = [profiles EXCEPT ![name] = Absent]
    /\ UNCHANGED <<launchVars, current, legacy, lastLoad, prevLoad>>

\* Manager.Delete (the keyring entry of an API profile is deleted with it; a
\* failure to do so is only printed)
Delete ==
    /\ \E name \in ManagerNames :
          IF name = "default"
          THEN /\ call' = [fn |-> "Delete", name |-> name, active |-> GetCurrent(current),
                           err |-> "cannot delete default profile"]
               /\ UNCHANGED profiles
          ELSE IF GetCurrent(current) = name
          THEN /\ call' = [fn |-> "Delete", name |-> name, active |-> GetCurrent(current),
                           err |-> "cannot delete active profile"]
               /\ UNCHANGED profiles
          ELSE IF profiles[name] = Absent
          THEN /\ call' = [fn |-> "Delete", name |-> name, active |-> GetCurrent(current),
                           err |-> "profile does not exist"]
               /\ UNCHANGED profiles
          ELSE /\ call' = [fn |-> "Delete", name |-> name, active |-> GetCurrent(current),
                           err |-> ""]
               /\ profiles' = [profiles EXCEPT ![name] = Absent]
    /\ UNCHANGED <<launchVars, current, legacy, lastLoad, prevLoad>>

\* Manager.SetCurrent
SetCurrent ==
    /\ \E name \in ManagerNames :
          IF profiles[name] = Absent
          THEN /\ call' = [fn |-> "SetCurrent", name |-> name,
                           active |-> GetCurrent(current), err |-> "profile does not exist"]
               /\ UNCHANGED current
          ELSE /\ call' = [fn |-> "SetCurrent", name |-> name,
                           active |-> GetCurrent(current), err |-> ""]
               /\ current' = name
    /\ UNCHANGED <<launchVars, profiles, legacy, lastLoad, prevLoad>>

\* Manager.Rename: the file is renamed, and SetCurrent(newName) follows when
\* the renamed profile was the active one
Rename ==
    /\ \E oldName \in ManagerNames, newName \in ManagerNames :
          IF oldName = "default"
          THEN /\ call' = [fn |-> "Rename", name |-> oldName, newName |-> newName,
                           active |-> GetCurrent(current),
                           err |-> "cannot rename default profile"]
               /\ UNCHANGED <<profiles, current>>
          ELSE IF profiles[oldName] = Absent
          THEN /\ call' = [fn |-> "Rename", name |-> oldName, newName |-> newName,
                           active |-> GetCurrent(current), err |-> "profile does not exist"]
               /\ UNCHANGED <<profiles, current>>
          ELSE IF profiles[newName] # Absent
          THEN /\ call' = [fn |-> "Rename", name |-> oldName, newName |-> newName,
                           active |-> GetCurrent(current), err |-> "profile already exists"]
               /\ UNCHANGED <<profiles, current>>
          ELSE /\ call' = [fn |-> "Rename", name |-> oldName, newName |-> newName,
                           active |-> GetCurrent(current), err |-> ""]
               /\ profiles' = [profiles EXCEPT ![oldName] = Absent,
                                               ![newName] = profiles[oldName]]
               /\ current' = IF GetCurrent(current) = oldName THEN newName ELSE current
    /\ UNCHANGED <<launchVars, legacy, lastLoad, prevLoad>>

\* Manager.Copy: the copy of an API profile gets a keyring entry of its own
Copy ==
    /\ \E sourceName \in ManagerNames, destName \in ManagerNames, keyringOk \in BOOLEAN :
          LET cfg == profiles[sourceName]
              isAPI == cfg.ProfileType = "api" /\ cfg.APIKeyID # ""
              copy == IF isAPI THEN [cfg EXCEPT !.APIKeyID = "key-2"] ELSE cfg
          IN IF profiles[sourceName] = Absent
             THEN /\ call' = [fn |-> "Copy", name |-> sourceName, newName |-> destName,
                              active |-> GetCurrent(current),
                              err |-> "profile does not exist"]
                  /\ UNCHANGED profiles
             ELSE IF profiles[destName] # Absent
             THEN /\ call' = [fn |-> "Copy", name |-> sourceName, newName |-> destName,
                              active |-> GetCurrent(current),
                              err |-> "profile already exists"]
                  /\ UNCHANGED profiles
             ELSE IF isAPI /\ ~keyringOk
             THEN /\ call' = [fn |-> "Copy", name |-> sourceName, newName |-> destName,
                              active |-> GetCurrent(current),
                              err |-> "failed to retrieve API key from keyring"]
                  /\ UNCHANGED profiles
             ELSE IF Validate(copy) # ""
             THEN /\ call' = [fn |-> "Copy", name |-> sourceName, newName |-> destName,
                              active |-> GetCurrent(current), err |-> "invalid configuration"]
                  /\ UNCHANGED profiles
             ELSE /\ call' = [fn |-> "Copy", name |-> sourceName, newName |-> destName,
                              active |-> GetCurrent(current), err |-> ""]
                  /\ profiles' = [profiles EXCEPT ![destName] = copy]
    /\ UNCHANGED <<launchVars, current, legacy, lastLoad, prevLoad>>

\* a profiles directory in which the active profile exists
ManagerInit ==
    /\ current \in {""} \cup ManagerNames
    /\ profiles \in [ManagerNames -> {Absent} \cup ManagerRecords]
    /\ profiles[GetCurrent(current)] # Absent
    /\ legacy = Absent
    /\ lastLoad = NoLoad
    /\ prevLoad = NoLoad

(***************************************************************************)
(* Specifications                                                          *)
(***************************************************************************)
\* no profile store
StoreIdle ==
    /\ profiles = [n \in ProfileNames |-> Absent]
    /\ current = ""
    /\ legacy = Absent
    /\ lastLoad = NoLoad
    /\ prevLoad = NoLoad

\* no function called on its own
NoCall == [fn |-> "none"]
FuncIdle == call = NoCall

\* no call of Launch
LaunchIdle ==
    /\ cfgProfileType = "bedrock"
    /\ modelIDs = [main |-> FullMain, fast |-> FullFast, heavy |-> FullMain]
    /\ osEnv = [lookPath |-> TRUE, keyring |-> TRUE, start |-> TRUE]
    /\ pc = "idle"
    /\ vpc = "idle"
    /\ wpc = "idle"
    /\ validationDone = <<>>
    /\ cmdDone = <<>>
    /\ child = "notStarted"
    /\ childStatus = [kind |-> "none"]
    /\ killPending = FALSE
    /\ killCalls = <<>>
    /\ exitedFirst = FALSE
    /\ validationErr = NoErr
    /\ cmdErr = NotReceived
    /\ exitCode = 0
    /\ tracked = <<>>
    /\ result = NotReturned
    /\ hostExit = <<>>

Init == LaunchInit /\ StoreIdle /\ FuncIdle
Next == LaunchNext

\* one call of Launch, under any scheduling of its three goroutines
Spec == Init /\ [][Next]_vars

\* the same, where the goroutine running Launch is scheduled as long as it can
\* take a step; nothing is assumed of the validation goroutine
FairSpec == Init /\ [][Next]_vars /\ WF_vars(Coordinator)

\* Launch when the coordinator and the goroutine around cmd.Wait() are
\* scheduled whenever they can take a step; the validation goroutine waits
\* for the network and may never complete, and the process may never exit
LiveSpec == Init /\ [][Next]_vars /\ WF_vars(Coordinator) /\ WF_vars(WaitSend)

\* a profile store on disk, and no call of Launch
InitStore == StoreInit /\ LaunchIdle /\ FuncIdle

\* the profile store under any sequence of loads
StoreSpec == InitStore /\ [][LoadCurrentConfig]_vars

\* one run of the root command
RunRoot ==
    /\ call = NoCall
    /\ \E cliVersion \in CliVersions, flags \in RootFlags, env \in RootEnvs :
          \E o \in {runRoot([profiles |-> profiles, current |-> current, legacy |-> legacy],
                            cliVersion, flags, env)} :
             /\ profiles' = o.st.profiles
             /\ current' = o.st.current
             /\ legacy' = o.st.legacy
             /\ call' = [fn |-> "runRoot", cli |-> cliVersion, flags |-> flags,
                         launched |-> o.launched, err |-> o.err,
                         profileType |-> o.profileType, ids |-> o.ids]
    /\ UNCHANGED <<launchVars, lastLoad, prevLoad>>

\* a profile store on disk, and one run of the root command
InitRoot == RootInit /\ LaunchIdle /\ FuncIdle

RootSpec == InitRoot /\ [][RunRoot]_vars

\* a profiles directory, and any sequence of operations on it
InitManager == ManagerInit /\ LaunchIdle /\ FuncIdle

ManagerNext ==
    \/ Save
    \/ Delete
    \/ SetCurrent
    \/ Rename
    \/ Copy

ManagerSpec == InitManager /\ [][ManagerNext]_vars

(***************************************************************************)
(* Claims about Launch                                                     *)
(***************************************************************************)
\* the exit code the claude process ended with (-1 when ended by a signal)
ChildCode == IF childStatus.kind = "exit" THEN childStatus.code ELSE -1

\* C1: the coordinator never takes the kill path once the exit of the child
\* has been reported: at every call of cmd.Process.Kill(), cmd.Wait() has not
\* returned and sent its result on cmdDone.
C1_NoKillAfterExitReported ==
    \A i \in 1..Len(killCalls) : ~killCalls[i].exitSent

\* C2: when the child exited before the validation goroutine completed,
\* Launch never takes the kill path, and what it returns is decided by the
\* exit of the child alone (nil for exit code 0), whatever validation sends.
C2_EarlyExitDecides ==
    exitedFirst =>
        /\ pc \notin {"kill", "awaitKilled"}
        /\ killCalls = <<>>
        /\ (pc = "returned" =>
               result \in {Nil, Err("claude exited with error")})

\* C3: once the coordinator has received a validation failure, it kills the
\* process (exactly one Kill), returns only after the process has exited, and
\* returns "invalid model configuration" wrapping the validation failure; no
\* session is tracked, no exit code is taken from the child, os.Exit is not
\* called.
C3_ValidationFailureKills ==
    validationErr # NoErr =>
        /\ pc \in {"kill", "awaitKilled", "returned"}
        /\ (pc \in {"awaitKilled", "returned"} => Len(killCalls) = 1)
        /\ cmdErr = NotReceived
        /\ exitCode = 0
        /\ tracked = <<>>
        /\ hostExit = <<>>
        /\ (pc = "returned" =>
               /\ child = "exited"
               /\ result = ErrWrap("invalid model configuration", validationErr))

\* the process was running when it was killed, ended by the signal, and
\* Launch returned the configuration error
C3_Witness ==
    /\ pc = "returned"
    /\ validationErr # NoErr
    /\ Len(killCalls) = 1
    /\ killCalls[1].child = "running"
    /\ childStatus = [kind |-> "signal"]

\* C4 as stated: on every run of Launch that started the process and ended
\* without receiving a validation failure, the process was never killed, the
\* session was tracked exactly once with the exit code of the child, and the
\* host exits with that code when it is not 0 and returns nil when it is 0.
C4_AlwaysTrackedOnce ==
    (Terminated /\ child # "notStarted" /\ validationErr = NoErr) =>
        /\ killCalls = <<>>
        /\ child = "exited"
        /\ Len(tracked) = 1
        /\ tracked[1].exitCode = ChildCode
        /\ IF ChildCode # 0
           THEN hostExit = <<ChildCode>> /\ result = NotReturned
           ELSE hostExit = <<>> /\ result = Nil

\* C4 amended: the same, on the runs where cmd.Wait() returned nil or an
\* *exec.ExitError; when cmd.Wait() fails otherwise, Launch returns
\* "claude exited with error" and tracks nothing.
C4_TrackedOnceWhenWaitReports ==
    (Terminated /\ child # "notStarted" /\ validationErr = NoErr) =>
        /\ killCalls = <<>>
        /\ child = "exited"
        /\ cmdErr # NotReceived
        /\ IF cmdErr.kind \in {"nil", "ExitError"}
           THEN /\ Len(tracked) = 1
                /\ tracked[1].exitCode = ChildCode
                /\ IF ChildCode # 0
                   THEN hostExit = <<ChildCode>> /\ result = NotReturned
                   ELSE hostExit = <<>> /\ result = Nil
           ELSE /\ tracked = <<>>
                /\ hostExit = <<>>
                /\ result = Err("claude exited with error")

\* validation passed, the process then ended with code 2, the session was
\* tracked and the host exited with 2
C4_Witness ==
    /\ pc = "exited"
    /\ vpc = "done"
    /\ ~exitedFirst
    /\ childStatus = [kind |-> "exit", code |-> 2]
    /\ Len(tracked) = 1
    /\ hostExit = <<2>>

\* C5: starting the process does not wait for validation: whenever Launch is
\* about to start the process and the start succeeds, the process gets
\* running, also in the executions where the validation goroutine never
\* completes.
C5_StartDoesNotWait ==
    (pc = "startCmd" /\ osEnv.start) ~> (child = "running")

\* the process is running while the validation goroutine has not completed
C5_Witness ==
    /\ child = "running"
    /\ vpc = "running"
    /\ validationDone = <<>>

\* C6: whatever the usage tracker did (recorded, failed to open, failed to
\* record), a run that tracked its session ends by the exit code alone:
\* os.Exit(code) for a code other than 0, return nil for 0.
C6_TrackerFailureIgnored ==
    (tracked # <<>>) =>
        /\ Len(tracked) = 1
        /\ pc \in {"finish", "returned", "exited"}
        /\ tracked[1].exitCode = exitCode
        /\ (Terminated =>
               IF exitCode # 0
               THEN hostExit = <<exitCode>> /\ result = NotReturned /\ pc = "exited"
               ELSE hostExit = <<>> /\ result = Nil)

\* the tracker failed to record, and Launch returned nil all the same
C6_Witness ==
    /\ pc = "returned"
    /\ Len(tracked) = 1
    /\ tracked[1].outcome = "trackFailed"
    /\ tracked[1].exitCode = 0
    /\ result = Nil

(***************************************************************************)
(* Claims about the migration engine                                       *)
(***************************************************************************)
\* the latest load read a record from the profile file
LoadedARecord == lastLoad # NoLoad /\ lastLoad.loaded # NoRecord

\* the record that was read has no model field populated
NoModels(c) == c.Model = "" /\ c.FastModel = "" /\ c.HeavyModel = ""

\* C7: when a load succeeded and the next load runs with the same version of
\* the binary, the second load succeeds, returns the record the first one
\* returned and leaves the profile file as the first one left it, without any
\* resolver call and without any step changing a field.
C7_SecondLoadChangesNothing ==
    (prevLoad # NoLoad /\ prevLoad.ok /\ lastLoad.cli = prevLoad.cli) =>
        /\ lastLoad.ok
        /\ lastLoad.name = prevLoad.name
        /\ lastLoad.cfg = prevLoad.cfg
        /\ lastLoad.after = prevLoad.after
        /\ lastLoad.loaded = prevLoad.after
        /\ lastLoad.calls = 0
        /\ lastLoad.steps = {}

\* the first load resolved friendly names through the catalog and changed the
\* record; the second load ran with the same version
C7_Witness ==
    /\ prevLoad # NoLoad
    /\ prevLoad.ok
    /\ prevLoad.calls = 2
    /\ prevLoad.steps = {"v0.6.0", "v0.4.0"}
    /\ prevLoad.cfg.Version = "v0.6.1"
    /\ lastLoad.cli = prevLoad.cli
    /\ lastLoad.ok

\* C8: a record with an empty version and no model field populated makes no
\* resolver call on load, and the load does not fail.
C8_EmptyRecordLoadsOffline ==
    (LoadedARecord /\ lastLoad.loaded.Version = "" /\ NoModels(lastLoad.loaded)) =>
        /\ lastLoad.calls = 0
        /\ lastLoad.ok
        /\ lastLoad.cfg = lastLoad.loaded

\* such a record with no profile type either was loaded by a released binary
C8_Witness ==
    /\ LoadedARecord
    /\ lastLoad.loaded.Version = ""
    /\ lastLoad.loaded.ProfileType = ""
    /\ NoModels(lastLoad.loaded)
    /\ lastLoad.cli = "v0.6.1"
    /\ lastLoad.ok

\* C9: a record with an empty version and a populated model field is older
\* than every release: a released binary that loads it runs the migration
\* steps, and the record it returns has a profile type.
C9_EmptyVersionWithModelsMigrates ==
    (/\ LoadedARecord
     /\ lastLoad.cli # "dev"
     /\ lastLoad.loaded.Version = ""
     /\ ~NoModels(lastLoad.loaded)) =>
        /\ lastLoad.migrated
        /\ (lastLoad.ok => lastLoad.cfg.ProfileType \in {"bedrock", "api"})

\* C10: when a load fails because a model could not be resolved through the
\* catalog, the profile file holds the record the load read from it.
C10_ResolveFailureWritesNothing ==
    (/\ LoadedARecord
     /\ lastLoad.cause \in {"failed to resolve main model",
                            "failed to resolve fast model"}) =>
        lastLoad.after = lastLoad.loaded

\* a model field is empty or a full identifier
EmptyOrFull(model) == model = "" \/ IsFullProfileID(model)

\* C11: after a load that migrated a record and succeeded, for a record that
\* is not of the api type, each of model, fast model and heavy model is empty
\* or a full identifier.
C11_MigratedModelsAreFull ==
    (/\ lastLoad # NoLoad
     /\ lastLoad.migrated
     /\ lastLoad.ok
     /\ lastLoad.cfg.ProfileType # "api") =>
        /\ EmptyOrFull(lastLoad.cfg.Model)
        /\ EmptyOrFull(lastLoad.cfg.FastModel)
        /\ EmptyOrFull(lastLoad.cfg.HeavyModel)

\* the three model fields of a record
Models(c) == <<c.Model, c.FastModel, c.HeavyModel>>

\* C12: in a migration, a record of the api type goes through no resolver
\* call and no step: its model fields are left as read, in memory and in the
\* profile file; and whenever a resolver call was made or the v0.4.0 or v0.5.0
\* step changed the record, the profile type had been backfilled and saved
\* before.
C12_ApiSkipsResolverSteps ==
    (lastLoad # NoLoad /\ lastLoad.migrated) =>
        /\ (lastLoad.loaded.ProfileType = "api" =>
               /\ lastLoad.calls = 0
               /\ lastLoad.steps = {}
               /\ Models(lastLoad.after) = Models(lastLoad.loaded)
               /\ (lastLoad.ok => Models(lastLoad.cfg) = Models(lastLoad.loaded)))
        /\ ((lastLoad.calls > 0 \/ lastLoad.steps \cap {"v0.4.0", "v0.5.0"} # {}) =>
               lastLoad.after.ProfileType = "bedrock")

\* a record of the api type older than every step was migrated
C12_Witness ==
    /\ lastLoad # NoLoad
    /\ lastLoad.migrated
    /\ lastLoad.ok
    /\ lastLoad.loaded.ProfileType = "api"
    /\ lastLoad.loaded.Version = "0.3.0"
    /\ lastLoad.cfg.Version = "v0.6.1"

\* C13: a load by a development build runs no migration and no step, makes no
\* resolver call and leaves the record as read (a profile it creates has no
\* version); a load by any other build that migrated and succeeded returns a
\* record whose version is the version of the build, and the profile file
\* holds that record.
C13_StampUnlessDev ==
    lastLoad # NoLoad =>
        /\ (lastLoad.cli = "dev" =>
               /\ ~lastLoad.migrated
               /\ lastLoad.calls = 0
               /\ lastLoad.steps = {}
               /\ (lastLoad.loaded # NoRecord =>
                      lastLoad.ok /\ lastLoad.cfg = lastLoad.loaded
                                  /\ lastLoad.after = lastLoad.loaded)
               /\ ((lastLoad.loaded = NoRecord /\ lastLoad.ok) =>
                      lastLoad.after.Version = ""))
        /\ ((lastLoad.cli # "dev" /\ lastLoad.migrated /\ lastLoad.ok) =>
               /\ lastLoad.cfg.Version = lastLoad.cli
               /\ lastLoad.after = lastLoad.cfg)

\* a development build loaded an old record and left it alone; the release
\* that loaded it next migrated and stamped it
C13_Witness ==
    /\ prevLoad # NoLoad
    /\ prevLoad.cli = "dev"
    /\ prevLoad.loaded # NoRecord
    /\ prevLoad.loaded.Version = "0.3.0"
    /\ prevLoad.after.Version = "0.3.0"
    /\ lastLoad.cli = "v0.6.1"
    /\ lastLoad.migrated
    /\ lastLoad.ok
    /\ lastLoad.after.Version = "v0.6.1"

(***************************************************************************)
(* package config (src/unnamed/part_009): the migrations of config.json    *)
(***************************************************************************)
\* the map modelPrefixToProvider of migrateModelFormat
modelPrefixToProvider ==
    [claude |-> "anthropic", llama |-> "meta", titan |-> "amazon", j2 |-> "ai21",
     command |-> "cohere", mistral |-> "mistral", jamba |-> "ai21"]

\* migrateModelFormat: the provider of the prefix that matches is prepended.
\* The map is ranged over in an order that varies, which decides nothing: no
\* key is a prefix of another key, so at most one key matches.
migrateModelFormat(model) ==
    IF Contains(model, ".") THEN model
    ELSE LET matching == {prefix \in DOMAIN modelPrefixToProvider :
                             HasPrefix(model, prefix)}
         IN IF matching # {}
            THEN modelPrefixToProvider[CHOOSE prefix \in matching : TRUE] \o "." \o model
            ELSE "anthropic." \o model

\* Config.migrateToV020
migrateToV020(c) ==
    [c EXCEPT !.Model = migrateModelFormat(c.Model),
              !.FastModel = migrateModelFormat(c.FastModel)]

\* Config.migrateToV060 (the one of package config)
configMigrateToV060(c) ==
    IF c.ProfileType # "" THEN c ELSE [c EXCEPT !.ProfileType = "bedrock"]

\* Config.migrate(currentVersion): the record after it, whether it migrated,
\* and the steps it applied
migrate(c, currentVersion) ==
    IF currentVersion = "dev" THEN [cfg |-> c, migrated |-> FALSE, applied |-> {}]
    ELSE LET run020 == CompareVersions(c.Version, "0.2.0") < 0
             run060 == CompareVersions(c.Version, "0.6.0") < 0
             c1 == IF run020 THEN migrateToV020(c) ELSE c
             c2 == IF run060 THEN configMigrateToV060(c1) ELSE c1
         IN [cfg |-> IF run020 \/ run060 THEN [c2 EXCEPT !.Version = currentVersion] ELSE c2,
             migrated |-> run020 \/ run060,
             applied |-> (IF run020 THEN {"0.2.0"} ELSE {})
                         \cup (IF run060 THEN {"0.6.0"} ELSE {})]

(***************************************************************************)
(* Functions called on their own, each once, on arguments of bounded sets  *)
(***************************************************************************)
\* versions a record may carry: absent, without and with the v prefix, equal
\* to the target of a step, and with a component of two digits
FuncVersions == {"", "0.1.0", "0.2.0", "0.3.0", "v0.3.9", "v0.4.0", "v0.4.1", "v0.5.0",
                 "0.6.0", "v0.6.0", "v0.6.1", "v0.10.0"}

\* the records MigrateProfile is called on
MigrationInputs ==
    [Version : FuncVersions, ProfileType : {"", "bedrock"}, Profile : {"default"},
     Region : {"us-east-1"}, CrossRegion : {"global"}, BaseURL : {""}, APIKeyID : {""},
     Model : {"", FriendlyMain, FullMain},
     FastModel : {"", FullFast},
     HeavyModel : {"", FullMain}]
    \cup
    [Version : FuncVersions, ProfileType : {"api"}, Profile : {""},
     Region : {""}, CrossRegion : {""}, BaseURL : {"https://api.anthropic.com"},
     APIKeyID : {"key-1"},
     Model : {"claude-sonnet-4-5"}, FastModel : {"claude-haiku-4-5"},
     HeavyModel : {"", "claude-opus-4-1"}]

\* MigrateProfile(profileName, cfg.Version, cfg, saver) of a manager made for
\* cliVersion, as GetCurrentConfig calls it
CallMigrateProfile ==
    /\ call = NoCall
    /\ \E cliVersion \in CliVersions, cfg \in MigrationInputs, n1 \in Nets, n2 \in Nets :
          \E out \in {MigrateProfile(cliVersion, cfg.Version, NewMigration(cfg),
                                     <<n1, n2>>)} :
             call' = [fn |-> "MigrateProfile", cli |-> cliVersion, cfg |-> cfg,
                      out |-> out]
    /\ UNCHANGED <<launchVars, storeVars>>

\* the records of config.json that Config.migrate is called on
LegacyModels == {"", "claude-sonnet-4-5", "anthropic.claude-sonnet-4-5",
                 "llama3-70b-instruct", "nova-pro"}

LegacyInputs ==
    [Version : FuncVersions, ProfileType : {"", "bedrock", "api"}, Profile : {"default"},
     Region : {"us-east-1"}, CrossRegion : {"global"}, BaseURL : {""}, APIKeyID : {""},
     Model : LegacyModels, FastModel : LegacyModels, HeavyModel : {""}]

\* Config.migrate(currentVersion) on a record read from config.json
CallMigrate ==
    /\ call = NoCall
    /\ \E currentVersion \in {"0.6.1", "dev"}, cfg \in LegacyInputs :
          call' = [fn |-> "migrate", cli |-> currentVersion, cfg |-> cfg,
                   out |-> migrate(cfg, currentVersion)]
    /\ UNCHANGED <<launchVars, storeVars>>

\* Config.migrateToV020 on a record, and once more on the record it left
CallMigrateToV020 ==
    /\ call = NoCall
    /\ \E cfg \in LegacyInputs :
          call' = [fn |-> "migrateToV020", cfg |-> cfg, out |-> migrateToV020(cfg),
                   again |-> migrateToV020(migrateToV020(cfg))]
    /\ UNCHANGED <<launchVars, storeVars>>

\* the version strings compareVersions is called on: no version, "0", the
\* development sentinel, with and without the v prefix, of two and of three
\* components, with a component of two digits and with one that is no number
OrderVersions == {"", "0", "dev", "0.6", "0.6.0", "0.6.2", "0.6.10", "0.6.1rc",
                  "v0.6.0", "v0.6.1", "1.0.0"}

\* compareVersions on the pairs of three version strings
CallCompareVersions ==
    /\ call = NoCall
    /\ \E a \in OrderVersions, b \in OrderVersions, c \in OrderVersions :
          call' = [fn |-> "compareVersions", a |-> a, b |-> b, c |-> c,
                   ab |-> CompareVersions(a, b), ba |-> CompareVersions(b, a),
                   bc |-> CompareVersions(b, c), ac |-> CompareVersions(a, c)]
    /\ UNCHANGED <<launchVars, storeVars>>

\* what ResolveModelToProfileID is called with: full identifiers of the
\* three geographies, friendly names, names without a dot, a geography alone,
\* with nothing after or before its dot, and prefixes that only resemble one
ResolveInputs == {"", "us", "global", "us.", ".us", "eu.x", "usa.claude",
                  "anthropic.claude-sonnet-4-5", "anthropic.claude-haiku-4-5",
                  "anthropic.claude-opus-4", "claude-sonnet-4-5",
                  "us.anthropic.claude-haiku-4-5-20251001-v1:0",
                  "global.anthropic.claude-sonnet-4-5-20250929-v1:0",
                  "apac.anthropic.claude-sonnet-4-5-20250929-v1:0"}

\* the catalogs it is answered with: none, one with two identifiers of the
\* same prefix in either order, with a nil identifier, and one of other models
ResolveCatalogs ==
    {<<>>,
     <<"us.anthropic.claude-haiku-4-5-20251001-v1:0",
       "us.anthropic.claude-sonnet-4-5-20250929-v1:0",
       "us.anthropic.claude-sonnet-4-5-20250929-v2:0",
       "global.anthropic.claude-sonnet-4-5-20250929-v1:0">>,
     <<NilId, "us.anthropic.claude-sonnet-4-5-20250929-v2:0",
       "us.anthropic.claude-sonnet-4-5-20250929-v1:0", "eu.x">>,
     <<"us.anthropic.claude-opus-4-1-20250805-v1:0", NilId,
       "us.anthropic.claude-opus-4-20250514-v1:0">>}

ResolveNets ==
    {[fetch |-> f, catalog |-> c] : f \in {"ok"}, c \in ResolveCatalogs}
      \cup {[fetch |-> f, catalog |-> <<>>] : f \in {"configError", "listError"}}

\* ResolveModelToProfileID on one input against one answer of the network
CallResolveModelToProfileID ==
    /\ call = NoCall
    /\ \E net \in ResolveNets, crossRegion \in validCrossRegions, model \in ResolveInputs :
          call' = [fn |-> "ResolveModelToProfileID", net |-> net,
                   crossRegion |-> crossRegion, model |-> model,
                   out |-> ResolveModelToProfileID(net, crossRegion, model)]
    /\ UNCHANGED <<launchVars, storeVars>>

\* full identifiers: of models with a date and a version, with a version
\* only, with a model name that starts with "v", and with nothing after the
\* provider
RoundTripIDs == {"global.anthropic.claude-sonnet-4-5-20250929-v1:0",
                 "us.anthropic.claude-sonnet-4-5-20250929-v1:0",
                 "us.anthropic.claude-opus-4-20250514-v1:0",
                 "us.anthropic.claude-opus-4-1-20250805-v1:0",
                 "eu.amazon.nova-lite-v1:0",
                 "us.deepseek.v3-v1:0",
                 "us.anthropic"}

\* the catalogs of one to three profiles with these identifiers or none
RoundTripCatalogs ==
    UNION {[1..n -> RoundTripIDs \cup {NilId}] : n \in 1..3}

\* ExtractFriendlyModelName on an identifier, and findMatchingProfile on its
\* result with the identifier's geography
CallExtractFriendlyModelName ==
    /\ call = NoCall
    /\ \E id \in RoundTripIDs, catalog \in RoundTripCatalogs :
          \E g \in {SplitN2(id, ".")[1]}, friendly \in {ExtractFriendlyModelName(id)} :
             call' = [fn |-> "ExtractFriendlyModelName", id |-> id, catalog |-> catalog,
                      geography |-> g, friendly |-> friendly,
                      out |-> findMatchingProfile(catalog, g, friendly)]
    /\ UNCHANGED <<launchVars, storeVars>>

\* what ExtractFriendlyModelName is called with: friendly names, names without
\* a dot, full identifiers with and without a model name, with nothing after
\* the provider or the geography, and with a geography in the provider's place
FriendlyInputs == {"", "claude", "anthropic.claude-sonnet-4-5", "apac.x.y-20250101",
                   "global.anthropic.claude-sonnet-4-5-20250929-v1:0",
                   "us.meta.llama3-8b-instruct-v1:0",
                   "us.deepseek.v3-v1:0", "eu.amazon.nova-lite-v1:0",
                   "us.anthropic", "us.", "global.us.foo-bar", "eu.eu.eu.x"}

\* ExtractFriendlyModelName on a string and again on its result
CallExtractTwice ==
    /\ call = NoCall
    /\ \E x \in FriendlyInputs :
          \E once \in {ExtractFriendlyModelName(x)} :
             call' = [fn |-> "ExtractTwice", x |-> x, once |-> once,
                      twice |-> ExtractFriendlyModelName(once)]
    /\ UNCHANGED <<launchVars, storeVars>>

\* what extractModelNameFromVersion is called with: model names followed by a
\* date and a version, by a version only, by nothing; with a part of 8
\* letters, of 7 and of 9 digits; and starting with a version
VersionedModels == {"", "claude", "claude-sonnet-4-5-20250929-v1:0", "nova-lite-v1:0",
                    "llama3-8b-instruct-v1:0", "v3-v1:0", "titan-text:0",
                    "a-1234567-b", "a-123456789-b", "a-12345678-b", "mistral-large-2407-v1:0"}

\* extractModelNameFromVersion on one string
CallExtractModelNameFromVersion ==
    /\ call = NoCall
    /\ \E m \in VersionedModels :
          call' = [fn |-> "extractModelNameFromVersion", modelWithVersion |-> m,
                   out |-> extractModelNameFromVersion(m)]
    /\ UNCHANGED <<launchVars, storeVars>>

\* the identifiers of the catalogs that are listed: two versions of one
\* model, a model whose name starts with the name of another, other
\* geographies, identifiers that do not parse, and two providers of which one
\* is the start of the other
ListIDs == {"us.anthropic.claude-sonnet-4-5-20250929-v1:0",
            "us.anthropic.claude-sonnet-4-5-20250929-v2:0",
            "us.anthropic.claude-opus-4-20250514-v1:0",
            "us.anthropic.claude-opus-4-1-20250805-v1:0",
            "eu.amazon.nova-lite-v1:0",
            "global.anthropic.claude-sonnet-4-5-20250929-v1:0",
            "us.deepseek.v3-v1:0", "us.anthropic",
            "us.x.m-v1", "us.x-y.m-v1"}

MaxCatalog == 3

\* the catalogs of up to MaxCatalog profiles, with these identifiers or none
ListCatalogs ==
    UNION {[1..n -> ListIDs \cup {NilId}] : n \in 0..MaxCatalog}

ListNets ==
    {[fetch |-> "ok", catalog |-> c] : c \in ListCatalogs}
      \cup {[fetch |-> f, catalog |-> <<>>] : f \in {"configError", "listError"}}

\* GetAvailableModels and GetAvailableModelsDetailed on one answer of the
\* network
CallGetAvailableModels ==
    /\ call = NoCall
    /\ \E net \in ListNets, crossRegion \in validCrossRegions :
          call' = [fn |-> "GetAvailableModels", net |-> net, crossRegion |-> crossRegion,
                   out |-> GetAvailableModels(net, crossRegion),
                   detailed |-> GetAvailableModelsDetailed(net, crossRegion)]
    /\ UNCHANGED <<launchVars, storeVars>>

\* GetAvailableModels on a catalog, then ResolveModelToProfileID on each name
\* of the listing against the same catalog (the model selection of the
\* interactive configuration)
CallListThenResolve ==
    /\ call = NoCall
    /\ \E catalog \in ListCatalogs, crossRegion \in validCrossRegions :
          \E net \in {[fetch |-> "ok", catalog |-> catalog]} :
             \E listing \in {GetAvailableModels(net, crossRegion)} :
                call' = [fn |-> "ListThenResolve", net |-> net,
                         crossRegion |-> crossRegion, listing |-> listing,
                         resolved |-> [i \in 1..Len(listing.models) |->
                                          ResolveModelToProfileID(net, crossRegion,
                                                                  listing.models[i])]]
    /\ UNCHANGED <<launchVars, storeVars>>

FuncNext ==
    \/ CallMigrateProfile
    \/ CallMigrate
    \/ CallCompareVersions
    \/ CallMigrateToV020
    \/ CallResolveModelToProfileID
    \/ CallExtractFriendlyModelName
    \/ CallExtractTwice
    \/ CallExtractModelNameFromVersion
    \/ CallGetAvailableModels
    \/ CallListThenResolve

\* nothing but one function call
InitFunc == LaunchIdle /\ StoreIdle /\ FuncIdle

FuncSpec == InitFunc /\ [][FuncNext]_vars

(***************************************************************************)
(* Claims about the steps and the version comparison                       *)
(***************************************************************************)
\* v1 is strictly less than v2 under the version comparison
VersionLess(v1, v2) == CompareVersions(v1, v2) < 0

\* C14: for a record that is not of the api type, MigrateProfile applies the
\* step of target T exactly when the version of the record is strictly less
\* than T under the version comparison, and otherwise leaves the field of that
\* step as it was: the profile type for v0.6.0, the resolution of a friendly
\* model for v0.4.0, the heavy model for v0.5.0. Config.migrate applies
\* exactly the steps whose target is greater than the version of the record.
C14_StepAppliedIffOlder ==
    /\ (call.fn = "MigrateProfile" /\ call.cli # "dev") =>
          LET cfg == call.cfg
              out == call.out
          IN /\ cfg.ProfileType = "" =>
                   /\ ("v0.6.0" \in out.steps) <=> VersionLess(cfg.Version, "v0.6.0")
                   /\ ~VersionLess(cfg.Version, "v0.6.0") => out.cfg.ProfileType = ""
             /\ (cfg.ProfileType = "bedrock" /\ cfg.Model = FriendlyMain) =>
                   /\ (out.calls > 0) <=> VersionLess(cfg.Version, "v0.4.0")
                   /\ ~VersionLess(cfg.Version, "v0.4.0") => out.cfg.Model = FriendlyMain
             /\ (cfg.ProfileType = "bedrock" /\ cfg.Model = FullMain
                                             /\ cfg.HeavyModel = "") =>
                   /\ ("v0.5.0" \in out.steps) <=> VersionLess(cfg.Version, "v0.5.0")
                   /\ ~VersionLess(cfg.Version, "v0.5.0") => out.cfg.HeavyModel = ""
    /\ (call.fn = "migrate" /\ call.cli # "dev") =>
          call.out.applied = {T \in {"0.2.0", "0.6.0"} : VersionLess(call.cfg.Version, T)}

\* a record of version v0.4.0 with no profile type and a friendly model: the
\* v0.6.0 step was applied, the v0.4.0 step was not
C14_Witness ==
    /\ call.fn = "MigrateProfile"
    /\ call.cli = "v0.6.1"
    /\ call.cfg.Version = "v0.4.0"
    /\ call.cfg.ProfileType = ""
    /\ call.cfg.Model = FriendlyMain
    /\ call.out.steps = {"v0.6.0"}
    /\ call.out.calls = 0
    /\ call.out.cfg.Model = FriendlyMain
    /\ call.out.err = ""

\* C15: the version comparison is a total order: compare(a, b) is the
\* negation of compare(b, a); a < b and b < c imply a < c; and the development
\* sentinel is greater than every other version.
C15_TotalOrder ==
    call.fn = "compareVersions" =>
        /\ call.ab = 0 - call.ba
        /\ (call.ab < 0 /\ call.bc < 0) => call.ac < 0
        /\ (call.a = "dev" /\ call.b # "dev") => call.ab = 1

\* the provider the prefix table gives for the undotted names of LegacyModels
ProviderOf(model) ==
    IF model = "llama3-70b-instruct" THEN "meta" ELSE "anthropic"

\* C16: the normalization step leaves an empty model field empty, leaves a
\* field that contains "." as it is, prepends the provider of the prefix table
\* (anthropic when no prefix matches) and "." to any other field, and applied
\* twice it gives the record it gives applied once.
C16_NormalizeModelNames ==
    call.fn = "migrateToV020" =>
        /\ \A field \in {"Model", "FastModel"} :
              LET before == call.cfg[field]
                  after == call.out[field]
              IN /\ before = "" => after = ""
                 /\ Contains(before, ".") => after = before
                 /\ (before # "" /\ ~Contains(before, ".")) =>
                       after = ProviderOf(before) \o "." \o before
        /\ call.out.HeavyModel = call.cfg.HeavyModel
        /\ call.again = call.out

\* the error of a migration is a failed resolution
ResolveFailed(ms) ==
    ms.err \in {"failed to resolve main model", "failed to resolve fast model"}

\* C17: in a migration of a bedrock record, a heavy model that is set is left
\* as it is; the v0.5.0 step acts only on an empty heavy model and sets it to
\* the primary model as it is then; and a record older than v0.5.0 with a
\* primary model and no heavy model comes out, unless a resolution failed,
\* with the heavy model equal to the primary model (the resolved identifier
\* when the v0.4.0 step resolved it before).
C17_HeavyModelBackfilled ==
    (call.fn = "MigrateProfile" /\ call.cli # "dev"
                                /\ call.cfg.ProfileType = "bedrock") =>
        LET cfg == call.cfg
            out == call.out
        IN /\ cfg.HeavyModel # "" => out.cfg.HeavyModel = cfg.HeavyModel
           /\ ("v0.5.0" \in out.steps) =>
                 cfg.HeavyModel = "" /\ out.cfg.HeavyModel = out.cfg.Model
           /\ (/\ cfg.HeavyModel = ""
               /\ cfg.Model # ""
               /\ VersionLess(cfg.Version, "v0.5.0")
               /\ ~ResolveFailed(out)) =>
                 out.cfg.HeavyModel = out.cfg.Model
(***************************************************************************)
(* C18: ResolveModelToProfileID goes on to fetch the catalog if and only   *)
(* if the text before the first "." of its input is none of us, eu and     *)
(* global; an input that has such a prefix is returned unchanged, without  *)
(* error, whatever the network would have answered.                        *)
(***************************************************************************)
\* the text before the first "." of s is one of us, eu, global
HasGeographyPrefix(s) ==
    \E g \in {"us", "eu", "global"} : HasPrefix(s, g \o ".")

C18_FetchIffNotFull ==
    call.fn = "ResolveModelToProfileID" =>
        /\ call.out.fetched <=> ~HasGeographyPrefix(call.model)
        /\ HasGeographyPrefix(call.model) =>
               /\ call.out.ok
               /\ call.out.id = call.model
               /\ call.out.err = ""

\* a full identifier came back unchanged, without a fetch, although the
\* network was failing
C18_Witness ==
    /\ call.fn = "ResolveModelToProfileID"
    /\ call.model = "global.anthropic.claude-sonnet-4-5-20250929-v1:0"
    /\ call.net.fetch = "listError"
    /\ call.out.ok
    /\ ~call.out.fetched

(***************************************************************************)
(* C19: for an input that is not a full identifier, a successful fetch     *)
(* answers the first identifier of the catalog, in catalog order, that     *)
(* starts with geography + "." + model; when no identifier of the catalog  *)
(* has that prefix the error is not-found and lists every identifier of    *)
(* the catalog, in order; a failed fetch is reported as the fetch error,   *)
(* lists nothing, and is never not-found.                                  *)
(***************************************************************************)
\* the positions of catalog whose identifier starts with geography.model
PrefixHits(catalog, crossRegion, model) ==
    {i \in 1..Len(catalog) :
        /\ catalog[i] # NilId
        /\ Len(catalog[i]) >= Len(crossRegion) + 1 + Len(model)
        /\ SubSeq(catalog[i], 1, Len(crossRegion) + 1 + Len(model))
              = crossRegion \o "." \o model}

\* the identifiers of catalog, in order
Identifiers(catalog) == SelectSeq(catalog, LAMBDA id : id # NilId)

C19_FirstMatchOrNotFound ==
    (call.fn = "ResolveModelToProfileID" /\ call.out.fetched) =>
        LET hits == PrefixHits(call.net.catalog, call.crossRegion, call.model)
        IN IF call.net.fetch # "ok"
           THEN /\ ~call.out.ok
                /\ call.out.err \in {"failed to load AWS config",
                                     "failed to list inference profiles"}
                /\ call.out.available = <<>>
           ELSE IF hits = {}
           THEN /\ ~call.out.ok
                /\ call.out.err = "could not find inference profile"
                /\ call.out.available = Identifiers(call.net.catalog)
           ELSE /\ call.out.ok
                /\ call.out.err = ""
                /\ \E i \in hits :
                      /\ call.out.id = call.net.catalog[i]
                      /\ \A j \in hits : i <= j

\* two identifiers of the catalog have the prefix, after a nil one, and the
\* one that comes first was returned
C19_Witness ==
    /\ call.fn = "ResolveModelToProfileID"
    /\ call.model = "anthropic.claude-sonnet-4-5"
    /\ call.crossRegion = "us"
    /\ call.net.fetch = "ok"
    /\ Len(call.net.catalog) = 4
    /\ Head(call.net.catalog) = NilId
    /\ Cardinality(PrefixHits(call.net.catalog, call.crossRegion, call.model)) = 2
    /\ call.out.id = "us.anthropic.claude-sonnet-4-5-20250929-v2:0"

(***************************************************************************)
(* C20: when the catalog holds the identifier id and no other identifier   *)
(* that starts with id's geography + "." + ExtractFriendlyModelName(id),   *)
(* findMatchingProfile on that geography and that name returns id.         *)
(***************************************************************************)
\* id is in the catalog and is the only identifier with the prefix
OnlyOneWithPrefix(catalog, id, prefix) ==
    /\ \E i \in 1..Len(catalog) : catalog[i] = id
    /\ \A i \in 1..Len(catalog) :
          (catalog[i] # NilId /\ catalog[i] # id) => ~HasPrefix(catalog[i], prefix)

C20_FriendlyNameFindsIdentifier ==
    (/\ call.fn = "ExtractFriendlyModelName"
     /\ OnlyOneWithPrefix(call.catalog, call.id, call.geography \o "." \o call.friendly))
        => (call.out.ok /\ call.out.id = call.id)

(***************************************************************************)
(* C21: ExtractFriendlyModelName applied to its own result changes         *)
(* nothing, for every string, also when the provider of a full identifier  *)
(* is itself us, eu or global.                                             *)
(***************************************************************************)
C21_FriendlyNameIdempotent ==
    call.fn = "ExtractTwice" => call.twice = call.once

(***************************************************************************)
(* C22: ExtractFriendlyModelName returns its input unchanged when the      *)
(* input is not a full identifier, and when it is full but has no second   *)
(* "." or leaves no model name; it returns provider.modelName otherwise.   *)
(***************************************************************************)
\* what follows the geography of a full identifier
AfterGeography(s) == SubSeq(s, IndexOf(s, ".") + 1, Len(s))

C22_FriendlyNameOrInput ==
    call.fn = "ExtractTwice" =>
        IF ~HasGeographyPrefix(call.x) THEN call.once = call.x
        ELSE LET rest == AfterGeography(call.x)
                 dot == IndexOf(rest, ".")
             IN IF dot = 0 THEN call.once = call.x
                ELSE LET provider == SubSeq(rest, 1, dot - 1)
                         slug == extractModelNameFromVersion(
                                     SubSeq(rest, dot + 1, Len(rest)))
                     IN IF slug = "" THEN call.once = call.x
                        ELSE call.once = provider \o "." \o slug

(***************************************************************************)
(* C23: extractModelNameFromVersion returns the parts between "-", joined  *)
(* with "-", that come before the first part which is 8 digits, starts     *)
(* with "v" or holds a ":"; a part of 8 characters that are not all digits *)
(* does not end the name.                                                  *)
(***************************************************************************)
\* part is exactly 8 characters, all of them digits
EightDigits(part) ==
    Len(part) = 8 /\ \A i \in 1..8 : IsDigit(CharAt(part, i))

\* the parts before the first one that is 8 digits, starts with "v" or holds
\* a ":"
RECURSIVE PartsBeforeVersion(_)
PartsBeforeVersion(parts) ==
    IF parts = <<>> THEN <<>>
    ELSE IF EightDigits(Head(parts)) \/ HasPrefix(Head(parts), "v")
              \/ Contains(Head(parts), ":")
         THEN <<>>
         ELSE <<Head(parts)>> \o PartsBeforeVersion(Tail(parts))

C23_NameEndsAtDateOrVersion ==
    call.fn = "extractModelNameFromVersion" =>
        call.out = Join(PartsBeforeVersion(Split(call.modelWithVersion, "-")), "-")

(***************************************************************************)
(* C24: when the catalog was fetched, the listing of a geography holds,    *)
(* exactly once each, the names provider.modelName of the identifiers of   *)
(* the catalog that start with the geography and parse, and nothing else;  *)
(* when no identifier is left, the listing fails with "no models found".   *)
(* C24_ListingNeverFails is the claim as stated: the listing never fails.  *)
(***************************************************************************)
\* the name provider.modelName of an identifier of geography g that has a
\* provider and a model name, "" for any other identifier
NameInGeography(id, g) ==
    IF id = NilId \/ ~HasPrefix(id, g \o ".") THEN ""
    ELSE LET rest == AfterGeography(id)
             dot == IndexOf(rest, ".")
         IN IF dot = 0 THEN ""
            ELSE LET slug == extractModelNameFromVersion(SubSeq(rest, dot + 1, Len(rest)))
                 IN IF slug = "" THEN "" ELSE SubSeq(rest, 1, dot - 1) \o "." \o slug

NamesInGeography(catalog, g) ==
    {NameInGeography(catalog[i], g) : i \in 1..Len(catalog)} \ {""}

\* the sequence holds exactly the elements of the set, once each
ExactlyOnce(list, names) ==
    /\ {list[i] : i \in 1..Len(list)} = names
    /\ Len(list) = Cardinality(names)

C24_ListingNeverFails ==
    (call.fn = "GetAvailableModels" /\ call.net.fetch = "ok") =>
        LET names == NamesInGeography(call.net.catalog, call.crossRegion)
        IN /\ call.out.ok /\ ExactlyOnce(call.out.models, names)
           /\ call.detailed.ok /\ ExactlyOnce(call.detailed.models, names)

C24_ListingHoldsParsedNamesOnce ==
    (call.fn = "GetAvailableModels" /\ call.net.fetch = "ok") =>
        LET names == NamesInGeography(call.net.catalog, call.crossRegion)
        IN IF names = {}
           THEN /\ ~call.out.ok /\ call.out.err = "no models found"
                /\ ~call.detailed.ok /\ call.detailed.err = "no models found"
           ELSE /\ call.out.ok /\ ExactlyOnce(call.out.models, names)
                /\ call.detailed.ok /\ ExactlyOnce(call.detailed.models, names)

\* a catalog with two versions of one model and an identifier of another
\* geography was listed: one name
C24_Witness ==
    /\ call.fn = "GetAvailableModels"
    /\ call.crossRegion = "us"
    /\ call.net.catalog = <<"us.anthropic.claude-sonnet-4-5-20250929-v1:0",
                            "eu.amazon.nova-lite-v1:0",
                            "us.anthropic.claude-sonnet-4-5-20250929-v2:0">>
    /\ call.out.models = <<"anthropic.claude-sonnet-4-5">>
    /\ call.detailed.models = <<"anthropic.claude-sonnet-4-5">>

(***************************************************************************)
(* C25: both listings of a catalog are in the order of (provider, model    *)
(* name), each compared as strings, and are therefore the same sequence.   *)
(***************************************************************************)
\* name a comes before name b in the order of (provider, model name)
ProviderModelBefore(a, b) ==
    LET da == IndexOf(a, ".")
        db == IndexOf(b, ".")
        providerA == SubSeq(a, 1, da - 1)
        providerB == SubSeq(b, 1, db - 1)
    IN \/ StrLess(providerA, providerB)
       \/ /\ providerA = providerB
          /\ StrLess(SubSeq(a, da + 1, Len(a)), SubSeq(b, db + 1, Len(b)))

OrderedByProviderModel(list) ==
    \A i \in 1..Len(list) : \A j \in (i + 1)..Len(list) :
        ProviderModelBefore(list[i], list[j])

C25_ListingsInProviderModelOrder ==
    (call.fn = "GetAvailableModels" /\ call.out.ok) =>
        /\ OrderedByProviderModel(call.out.models)
        /\ OrderedByProviderModel(call.detailed.models)
        /\ call.detailed.models = call.out.models

(***************************************************************************)
(* C26: Launch kills a running child only after the validation found an    *)
(* identifier that is missing from a catalog it fetched; a validation that *)
(* failed to fetch the catalog does not kill the running child.            *)
(***************************************************************************)
C26_KillOnlyForMissingIdentifier ==
    \A i \in 1..Len(killCalls) :
        killCalls[i].child = "running" => validationErr.kind = "invalid"

(***************************************************************************)
(* C27: when the coordinator and the goroutine around cmd.Wait() are       *)
(* scheduled fairly, an exit of the child leads to the end of Launch, also *)
(* when the validation goroutine never completes; and a goroutine that is  *)
(* ready to send its result always finds room in its channel, whether or   *)
(* not the coordinator ever receives from it.                              *)
(***************************************************************************)
\* each channel has room for the one result its goroutine has yet to send
SendNeverBlocks ==
    /\ vpc = "running" => Len(validationDone) < 1
    /\ wpc = "waiting" => Len(cmdDone) < 1

C27_ExitLeadsToEnd ==
    /\ []SendNeverBlocks
    /\ (child = "exited") ~> Terminated

\* Launch has ended after the exit of the child while the validation
\* goroutine has not completed
C27_Witness ==
    /\ Terminated
    /\ child = "exited"
    /\ vpc = "running"
    /\ wpc = "done"

(***************************************************************************)
(* C28: every name of the listing of a geography resolves, against the     *)
(* same catalog, to an identifier whose friendly name is that name.        *)
(***************************************************************************)
C28_ListedNameResolvesToItsModel ==
    call.fn = "ListThenResolve" =>
        \A i \in 1..Len(call.listing.models) :
            /\ call.resolved[i].ok
            /\ ExtractFriendlyModelName(call.resolved[i].id) = call.listing.models[i]

(***************************************************************************)
(* C29: when runRoot calls Launch with a profile of type bedrock, each of  *)
(* the three model identifiers it passes is a full identifier, whether the *)
(* record came from the current profile, from the profile named by         *)
(* --clauderock-profile, or from the override flags.                       *)
(***************************************************************************)
C29_LaunchedIdentifiersAreFull ==
    (call.fn = "runRoot" /\ call.launched /\ call.profileType = "bedrock") =>
        \A i \in 1..Len(call.ids) : HasGeographyPrefix(call.ids[i])

====
